---- MODULE Spec2Model ----
(***************************************************************************)
(* Referral bot (daxzwashe/ref-bot): the persistence layer of database.py  *)
(* and the handlers of bot.py as a state machine.                          *)
(*                                                                         *)
(* Every handler is a task.  A task is created by the action that          *)
(* delivers its event and then advances one store operation (one `await    *)
(* db....`) at a time, so that handlers interleave exactly where the       *)
(* asyncio event loop may switch between them.  Sends to the chat and      *)
(* FSMContext calls touch no shared table and are folded into the store    *)
(* step they follow.                                                       *)
(***************************************************************************)
EXTENDS Bags, FiniteSets, Integers, Sequences, TLC

VARIABLES
    users,      \* table users: a set of rows
    partners,   \* table partners: a set of rows
    purchases,  \* table purchases: a sequence of rows, in insertion order
    fsm,        \* MemoryStorage: account -> [state, data]
    tasks,      \* handlers in flight: a bag of task records
    now,        \* the store's clock (CURRENT_TIMESTAMP), in days
    out         \* the response sent by the latest step (NoOut: none)

vars == <<users, partners, purchases, fsm, tasks, now, out>>

(***************************************************************************)
(* Bounds and input sets                                                   *)
(***************************************************************************)
MaxTasks == 2
MaxNow == 1
\* the add-purchase flow is entered while the table has fewer rows
MaxPurchases == 1

\* the windows of get_partner_stats, in days
WeekDays == 7
MonthDays == 30

\* Python None / SQL NULL of a text column
None == "None"

Accounts == 1..6
ADMIN_IDS == {1, 2}

\* what message.from_user can carry
Profiles ==
    { [username |-> "alice", first_name |-> "Al", last_name |-> None],
      [username |-> None,    first_name |-> "Bo", last_name |-> "Lee"] }

\* the codes generate_partner_code() draws in the model
Codes == {"AAAA1111", "BBBB2222"}

\* The second word of "/start <arg>", as a sequence of chunks; <<>> is a
\* /start without a second word.  At most one chunk of an argument is not
\* the literal "ref_".
StartArgs ==
    {<<>>} \cup {<<"ref_", c>> : c \in Codes}
           \cup {<<"AAAA1111">>, <<"ref_", "ref_", "AAAA1111">>}

\* what an administrator types for a handle, as chunks
HandleTexts == {<<"alice">>, <<"@", "alice">>, <<"bob">>}

\* what an administrator types for a user in the add-purchase flow, as chunks
IdTexts == {<<"4">>, <<"@", "alice">>, <<"99">>, <<"bob">>}

\* what an administrator types for an amount, and for a comment
AmountTexts == {"15.5", "abc", "0", "-3", "nan", "inf"}
CommentTexts == {"-", "club"}

\* what an administrator types as a search query, as chunks
SearchTexts == {<<"4">>, <<"@", "alice">>, <<"lee">>, <<"zzz">>}

\* get_chat_member: a status, or "error" for a raised exception
OracleResults == {"member", "administrator", "creator", "left", "error"}

NoOut == [kind |-> "none"]

(***************************************************************************)
(* Pure helpers                                                            *)
(***************************************************************************)
\* a privilege check that lets every account pass
is_admin_anyone(user_id) == TRUE

is_admin(user_id) == user_id \in ADMIN_IDS

\* str.replace(chunk, ""): every occurrence is removed
replace(s, chunk) == SelectSeq(s, LAMBDA c : c # chunk)

\* the text of a chunk sequence with at most one chunk
text_of(s) == IF s = <<>> THEN "" ELSE s[1]

startswith(s, chunk) == Len(s) > 0 /\ s[1] = chunk

get_partner_by_code(P, partner_code) == {p \in P : p.partner_code = partner_code}

\* cmd_start without the reset of ref_code after a failed lookup
cmd_start_ref_code_unchecked(P, arg) ==
    IF Len(arg) > 0 /\ startswith(arg, "ref_")
    THEN text_of(replace(arg, "ref_"))
    ELSE None

\* cmd_start: the ref_code handed to add_user for the argument arg
cmd_start_ref_code(P, arg) ==
    IF Len(arg) > 0 /\ startswith(arg, "ref_")
    THEN LET ref_code == text_of(replace(arg, "ref_"))
         IN  IF get_partner_by_code(P, ref_code) = {} THEN None ELSE ref_code
    ELSE None

\* add_user: SELECT user_id FROM users WHERE user_id = ?
add_user_exists(U, user_id) == \E u \in U : u.user_id = user_id

users_row(user_id, prof, ref_partner_code, ts) ==
    [user_id |-> user_id, username |-> prof.username,
     first_name |-> prof.first_name, last_name |-> prof.last_name,
     is_subscribed |-> 0, registered_at |-> ts,
     ref_partner_code |-> ref_partner_code]

\* the users table without its primary key
users_no_pk(U, row) == FALSE

\* users.user_id INTEGER PRIMARY KEY
users_pk_conflict(U, row) == \E u \in U : u.user_id = row.user_id

\* INSERT INTO users ...: the table after an accepted insert
users_insert(U, row) == U \cup {row}

\* add_user as "last touch wins": the stored code follows the latest /start
add_user_last_touch(U, row) ==
    { IF u.user_id = row.user_id
      THEN [u EXCEPT !.ref_partner_code = row.ref_partner_code] ELSE u : u \in U }

\* add_user as INSERT OR REPLACE: the stored row is rewritten on every /start
add_user_upsert(U, row) == {u \in U : u.user_id # row.user_id} \cup {row}

\* add_user's else branch: the user exists, nothing is written
add_user_existing(U, row) == U

\* the UPDATE without its `user_id = 0 OR user_id IS NULL` condition
update_partner_user_id_unguarded(P, username, user_id) ==
    { IF p.username = username THEN [p EXCEPT !.user_id = user_id] ELSE p : p \in P }

\* UPDATE partners SET user_id = ? WHERE username = ? AND (user_id = 0 OR
\* user_id IS NULL).  add_partner always binds an integer, so a partner row
\* never holds NULL and "unset" is 0.
update_partner_user_id(P, username, user_id) ==
    { IF p.username = username /\ p.user_id = 0
      THEN [p EXCEPT !.user_id = user_id] ELSE p : p \in P }

\* SELECT * FROM partners WHERE username = ?
\* a lookup by handle that finds nothing
get_partner_by_username_blind(P, username) == {}

get_partner_by_username(P, username) == {p \in P : p.username = username}

\* SELECT ... FROM users WHERE username = ?
get_user_by_username(U, username) == {u \in U : u.username = username}

partners_row(partner_code, username, user_id, ts) ==
    [partner_code |-> partner_code, username |-> username,
     user_id |-> user_id, created_at |-> ts]

\* the partners table without its primary key
partners_no_pk(P, row) == FALSE

\* partners.partner_code TEXT PRIMARY KEY
partners_pk_conflict(P, row) == \E p \in P : p.partner_code = row.partner_code

\* INSERT INTO partners ...: the table after an accepted insert
partners_insert(P, row) == P \cup {row}

\* a DELETE that removes nothing
partners_delete_none(P, username) == P

\* DELETE FROM partners WHERE username = ?
partners_delete(P, username) == {p \in P : p.username # username}

\* the handle taken verbatim from the reply
handle_of_verbatim(text) == text_of(text)

\* message.text.strip().replace("@", "")
handle_of(text) == text_of(replace(text, "@"))

\* SELECT is_subscribed FROM users WHERE user_id = ?; False without a row
is_subscribed(U, user_id) == \E u \in U : u.user_id = user_id /\ u.is_subscribed = 1

\* SELECT partner_code FROM partners WHERE user_id = ?: the codes fetchone()
\* may return (a query without ORDER BY)
get_user_partner_code(P, user_id) == {p.partner_code : p \in {q \in P : q.user_id = user_id}}

\* get_partner_stats: SELECT COUNT(*) FROM users WHERE ref_partner_code = ?
\* AND registered_at >= since
count_since(U, partner_code, since) ==
    Cardinality({u \in U : u.ref_partner_code = partner_code /\ u.registered_at >= since})

\* registered_at >= date('now'): the clock counts days, so the start of the
\* current day is the clock itself
stats_today(U, partner_code, t) == count_since(U, partner_code, t)

\* the week query with a window of '-70 days'
stats_week_wide(U, partner_code, t) == count_since(U, partner_code, t - 10 * WeekDays)

\* registered_at >= datetime('now', '-7 days')
stats_week(U, partner_code, t) == count_since(U, partner_code, t - WeekDays)

\* registered_at >= datetime('now', '-30 days')
stats_month(U, partner_code, t) == count_since(U, partner_code, t - MonthDays)

\* a total that counts the subscribed users only
stats_total_subscribed(U, partner_code) ==
    Cardinality({u \in U : u.ref_partner_code = partner_code /\ u.is_subscribed = 1})

\* SELECT COUNT(*) FROM users WHERE ref_partner_code = ?
stats_total(U, partner_code) ==
    Cardinality({u \in U : u.ref_partner_code = partner_code})

\* get_users_by_ref: the ids of the users with this ref_partner_code
\* (LIMIT 50: more rows than the model has accounts)
get_users_by_ref(U, partner_code) ==
    {u.user_id : u \in {v \in U : v.ref_partner_code = partner_code}}

\* int(query) succeeds on the decimal texts of the model and raises
\* ValueError on any other text
ValueError == "ValueError"
is_decimal(text) == Len(text) = 1 /\ text[1] \in {"4", "99"}
int(text) == IF text[1] = "4" THEN 4 ELSE 99

\* Python floats, in tenths: a finite value, not-a-number, or plus infinity
Finite(v) == [cls |-> "finite", v |-> v]
NaN == [cls |-> "nan", v |-> 0]
Inf == [cls |-> "inf", v |-> 0]
\* SQL NULL in a REAL column
NullReal == [cls |-> "null", v |-> 0]

\* float(text): the value, or ValueError for a text that is no float literal
float(text) ==
    CASE text = "15.5" -> Finite(155)
      [] text = "0"    -> Finite(0)
      [] text = "-3"   -> Finite(0 - 30)
      [] text = "nan"  -> NaN
      [] text = "inf"  -> Inf
      [] OTHER         -> [cls |-> ValueError, v |-> 0]

\* amount <= 0: every comparison with not-a-number is False
le_zero(amount) == amount.cls = "finite" /\ amount.v <= 0

\* binding a float to a REAL column: SQLite stores not-a-number as NULL
sql_real(amount) == IF amount.cls = "nan" THEN NullReal ELSE amount

\* a lookup by id that does not consult the table
get_user_by_id_or_username_unchecked(U, text) ==
    IF is_decimal(text)
    THEN {[user_id |-> int(text), username |-> None, first_name |-> None]}
    ELSE get_user_by_username(U, handle_of(text))

\* get_user_by_id_or_username: the rows fetchone() can return, {} for None.
\* A text that parses as an integer is looked up by id only.
get_user_by_id_or_username(U, text) ==
    IF is_decimal(text)
    THEN {u \in U : u.user_id = int(text)}
    ELSE get_user_by_username(U, handle_of(text))

\* value LIKE '%query%' for the texts of the model (case-insensitive
\* containment); NULL matches nothing
like(value, query) ==
    <<value, query>> \in {<<"alice", "alice">>, <<"Lee", "lee">>}

\* search_users: the ids of the matching rows
search_users(U, text) ==
    LET clean_query == replace(text, "@")
    IN  IF is_decimal(clean_query)
        THEN {u.user_id : u \in {v \in U : v.user_id = int(clean_query)}}
        ELSE {u.user_id : u \in {v \in U : \/ like(v.username, text_of(clean_query))
                                             \/ like(v.first_name, text_of(clean_query))
                                             \/ like(v.last_name, text_of(clean_query))}}

\* a comment taken verbatim
comment_of_verbatim(text) == text

\* message.text.strip() of the comment reply; a single dash is no comment
comment_of(text) == IF text = "-" THEN "" ELSE text

\* INSERT INTO purchases (user_id, amount, comment): id and created_at are
\* filled in by the store; the id is the position in the table
purchases_row(user_id, amount, comment, ts) ==
    [user_id |-> user_id, amount |-> sql_real(amount), comment |-> comment,
     created_at |-> ts]

\* check_subscription failing open: only a known negative status is negative
check_subscription_fail_open(res) == res # "left"

\* check_subscription: the verdict for an oracle result
check_subscription(res) == res \in {"member", "administrator", "creator"}

\* update_subscription that only ever grants: a negative verdict is dropped
update_subscription_sticky(U, user_id, is_sub) ==
    { IF u.user_id = user_id /\ is_sub
      THEN [u EXCEPT !.is_subscribed = 1] ELSE u : u \in U }

\* UPDATE users SET is_subscribed = ? WHERE user_id = ?
update_subscription(U, user_id, is_sub) ==
    { IF u.user_id = user_id
      THEN [u EXCEPT !.is_subscribed = IF is_sub THEN 1 ELSE 0] ELSE u : u \in U }

(***************************************************************************)
(* Tasks                                                                   *)
(***************************************************************************)
Running == BagToSet(tasks)
Spawn(t) == tasks' = tasks (+) SetToBag({t})
Step(t, t2) == tasks' = (tasks (-) SetToBag({t})) (+) SetToBag({t2})
Finish(t) == tasks' = tasks (-) SetToBag({t})
CanSpawn == BagCardinality(tasks) < MaxTasks

(***************************************************************************)
(* Initial state: init_db() on an empty file, no conversation              *)
(***************************************************************************)
IdleFsm == [state |-> None, data |-> <<>>]

Init ==
    /\ users = {}
    /\ partners = {}
    /\ purchases = <<>>
    /\ fsm = [a \in Accounts |-> IdleFsm]
    /\ tasks = EmptyBag
    /\ now = 0
    /\ out = NoOut

(***************************************************************************)
(* /start                                                                  *)
(***************************************************************************)
\* the message arrives; the argument is parsed and the partner looked up
cmd_start(user_id, prof, arg) ==
    /\ CanSpawn
    /\ Spawn([kind |-> "cmd_start", pc |-> "select", uid |-> user_id,
              prof |-> prof, arg |-> arg,
              ref_code |-> cmd_start_ref_code(partners, arg)])
    /\ out' = NoOut
    /\ UNCHANGED <<users, partners, purchases, fsm, now>>

\* cmd_start after add_user: `if username:` decides on the link.  Of the
\* handler's locals only user_id and username are read from here on; the
\* task keeps args and ref_code beside them.
AfterAddUser(t) ==
    [kind |-> "cmd_start",
     pc |-> IF t.prof.username # None THEN "link" ELSE "gate",
     uid |-> t.uid, username |-> t.prof.username,
     arg |-> t.arg, ref_code |-> t.ref_code]

\* add_user: the SELECT
add_user_select(t) ==
    /\ t.kind = "cmd_start" /\ t.pc = "select"
    /\ IF add_user_exists(users, t.uid)
       THEN /\ users' = add_user_existing(users, users_row(t.uid, t.prof, t.ref_code, now))
            /\ Step(t, AfterAddUser(t))
       ELSE /\ users' = users
            /\ Step(t, [t EXCEPT !.pc = "insert"])
    /\ out' = NoOut
    /\ UNCHANGED <<partners, purchases, fsm, now>>

\* add_user: the INSERT and commit; a duplicate key raises IntegrityError,
\* which nothing in cmd_start catches: the handler ends there
add_user_insert(t) ==
    /\ t.kind = "cmd_start" /\ t.pc = "insert"
    /\ LET row == users_row(t.uid, t.prof, t.ref_code, now)
       IN  IF users_pk_conflict(users, row)
           THEN /\ users' = users
                /\ Finish(t)
                /\ out' = [kind |-> "IntegrityError", to |-> t.uid,
                           ref_code |-> t.ref_code]
           ELSE /\ users' = users_insert(users, row)
                /\ Step(t, AfterAddUser(t))
                /\ out' = NoOut
    /\ UNCHANGED <<partners, purchases, fsm, now>>

\* if username: update_partner_user_id(username, user_id)
cmd_start_link(t) ==
    /\ t.kind = "cmd_start" /\ t.pc = "link"
    /\ partners' = update_partner_user_id(partners, t.username, t.uid)
    /\ Step(t, [t EXCEPT !.pc = "gate"])
    /\ out' = NoOut
    /\ UNCHANGED <<users, purchases, fsm, now>>

\* check_subscription, update_subscription and the answer.  The oracle's
\* answer res does not depend on the store, so it is drawn at the step that
\* persists the verdict.
cmd_start_gate(t, res) ==
    /\ t.kind = "cmd_start" /\ t.pc = "gate"
    /\ LET is_sub == check_subscription(res)
       IN  /\ users' = update_subscription(users, t.uid, is_sub)
           /\ out' = [kind |-> IF is_sub THEN "welcome" ELSE "subscribe_prompt",
                      to |-> t.uid, status |-> res, failed |-> (res = "error")]
    /\ Finish(t)
    /\ UNCHANGED <<partners, purchases, fsm, now>>

(***************************************************************************)
(* The "check_subscription" button                                         *)
(***************************************************************************)
check_subscription_callback(user_id, res) ==
    /\ LET is_sub == check_subscription(res)
       IN  /\ users' = update_subscription(users, user_id, is_sub)
           /\ out' = [kind |-> IF is_sub THEN "confirmed" ELSE "not_subscribed_alert",
                      to |-> user_id, status |-> res,
                      failed |-> (res = "error")]
    /\ UNCHANGED <<partners, purchases, fsm, tasks, now>>

(***************************************************************************)
(* get_partner_stats: four counting queries, one step each.  The task      *)
(* keeps the caller (for) and what the caller read of the subscription     *)
(* flag (gate: "subscribed", or "unchecked" when it read none).            *)
(***************************************************************************)
StatsTask(for, user_id, partner_code, gate) ==
    [kind |-> "get_partner_stats", pc |-> "today", for |-> for, uid |-> user_id,
     partner_code |-> partner_code, gate |-> gate]

stats_query_today(t) ==
    /\ t.kind = "get_partner_stats" /\ t.pc = "today"
    /\ Step(t, [kind |-> t.kind, pc |-> "week", for |-> t.for, uid |-> t.uid,
                partner_code |-> t.partner_code, gate |-> t.gate,
                today |-> stats_today(users, t.partner_code, now)])
    /\ out' = NoOut
    /\ UNCHANGED <<users, partners, purchases, fsm, now>>

stats_query_week(t) ==
    /\ t.kind = "get_partner_stats" /\ t.pc = "week"
    /\ Step(t, [kind |-> t.kind, pc |-> "month", for |-> t.for, uid |-> t.uid,
                partner_code |-> t.partner_code, gate |-> t.gate,
                today |-> t.today,
                week |-> stats_week(users, t.partner_code, now)])
    /\ out' = NoOut
    /\ UNCHANGED <<users, partners, purchases, fsm, now>>

stats_query_month(t) ==
    /\ t.kind = "get_partner_stats" /\ t.pc = "month"
    /\ Step(t, [kind |-> t.kind, pc |-> "total", for |-> t.for, uid |-> t.uid,
                partner_code |-> t.partner_code, gate |-> t.gate,
                today |-> t.today, week |-> t.week,
                month |-> stats_month(users, t.partner_code, now)])
    /\ out' = NoOut
    /\ UNCHANGED <<users, partners, purchases, fsm, now>>

\* the last query; the caller sends the result
stats_query_total(t) ==
    /\ t.kind = "get_partner_stats" /\ t.pc = "total"
    /\ out' = [kind |-> t.for, to |-> t.uid, partner_code |-> t.partner_code,
               gate |-> t.gate,
               stats |-> [today |-> t.today, week |-> t.week, month |-> t.month,
                          total |-> stats_total(users, t.partner_code)]]
    /\ Finish(t)
    /\ UNCHANGED <<users, partners, purchases, fsm, now>>

(***************************************************************************)
(* /ref and the partner cabinet's buttons                                  *)
(***************************************************************************)
\* /ref: the persisted verdict is read first
cmd_ref(user_id) ==
    /\ IF ~is_subscribed(users, user_id)
       THEN /\ out' = [kind |-> "subscribe_required", to |-> user_id]
            /\ tasks' = tasks
       ELSE /\ CanSpawn
            /\ Spawn([kind |-> "cmd_ref", pc |-> "partner_code", uid |-> user_id])
            /\ out' = NoOut
    /\ UNCHANGED <<users, partners, purchases, fsm, now>>

\* /ref: get_user_partner_code
cmd_ref_partner_code(t) ==
    /\ t.kind = "cmd_ref" /\ t.pc = "partner_code"
    /\ LET codes == get_user_partner_code(partners, t.uid)
       IN  IF codes = {}
           THEN /\ Finish(t)
                /\ out' = [kind |-> "not_partner", to |-> t.uid]
           ELSE /\ \E c \in codes : Step(t, StatsTask("cmd_ref", t.uid, c, "subscribed"))
                /\ out' = NoOut
    /\ UNCHANGED <<users, partners, purchases, fsm, now>>

\* the ref_stats_<code> button: no check precedes get_partner_stats
ref_stats_detail(user_id, partner_code) ==
    /\ CanSpawn
    /\ Spawn(StatsTask("ref_stats_detail", user_id, partner_code, "unchecked"))
    /\ out' = NoOut
    /\ UNCHANGED <<users, partners, purchases, fsm, now>>

\* the ref_users_<code> button: get_users_by_ref
ref_users_list(user_id, partner_code) ==
    /\ CanSpawn
    /\ Spawn([kind |-> "ref_users_list", pc |-> "purchases", uid |-> user_id,
              partner_code |-> partner_code,
              users |-> get_users_by_ref(users, partner_code)])
    /\ out' = NoOut
    /\ UNCHANGED <<users, partners, purchases, fsm, now>>

\* the listing with the purchases of every buyer
purchases_joined_all(U, S, partner_code) == 1..Len(S)

\* get_purchases_by_ref: FROM purchases p JOIN users u ON p.user_id = u.user_id
\* WHERE u.ref_partner_code = ? (the ids of the rows)
purchases_joined(U, S, partner_code) ==
    {i \in 1..Len(S) : \E u \in U : /\ u.user_id = S[i].user_id
                                    /\ u.ref_partner_code = partner_code}

\* get_purchases_by_ref: the joined rows ORDER BY p.created_at DESC, every
\* order the query can return them in: rows created at the same instant come
\* in any order
get_purchases_by_ref(U, S, partner_code) ==
    LET ids == purchases_joined(U, S, partner_code)
        n == Cardinality(ids)
    IN  {q \in [1..n -> ids] :
            \A a, b \in 1..n : a < b => /\ q[a] # q[b]
                                        /\ S[q[a]].created_at >= S[q[b]].created_at}

\* the ref_users_<code> button: get_purchases_by_ref and the answer
ref_users_list_purchases(t) ==
    /\ t.kind = "ref_users_list" /\ t.pc = "purchases"
    /\ \E rows \in get_purchases_by_ref(users, purchases, t.partner_code) :
           out' = [kind |-> "ref_users_list", to |-> t.uid,
                   partner_code |-> t.partner_code, gate |-> "unchecked",
                   users |-> t.users, purchases |-> rows]
    /\ Finish(t)
    /\ UNCHANGED <<users, partners, purchases, fsm, now>>

\* the ref_menu button: get_user_partner_code, then get_partner_stats
ref_menu_back(user_id) ==
    /\ LET codes == get_user_partner_code(partners, user_id)
       IN  IF codes = {}
           THEN /\ out' = [kind |-> "not_partner", to |-> user_id]
                /\ tasks' = tasks
           ELSE /\ CanSpawn
                /\ \E c \in codes : Spawn(StatsTask("ref_menu_back", user_id, c, "unchecked"))
                /\ out' = NoOut
    /\ UNCHANGED <<users, partners, purchases, fsm, now>>

(***************************************************************************)
(* Conversation state (FSMContext)                                         *)
(***************************************************************************)
set_state(F, user_id, state) == [F EXCEPT ![user_id].state = state]
\* a clear() that drops the data and keeps the state
clear_data(F, user_id) == [F EXCEPT ![user_id].data = <<>>]

\* a clear() that drops every conversation of the storage
clear_storage(F, user_id) == [a \in DOMAIN F |-> IdleFsm]

clear(F, user_id) == [F EXCEPT ![user_id] = IdleFsm]
\* update_data(**kv): the given keys are written, the other keys are kept
update_data(F, user_id, kv) == [F EXCEPT ![user_id].data = kv @@ F[user_id].data]

\* History marks.  In the keys user_flow and amount_flow the model records,
\* next to the user and the amount of the add-purchase flow, whether a flow
\* was started after they were written.  No guard reads them.
abandon(F, user_id) ==
    LET data == F[user_id].data
    IN  IF data = <<>>
        THEN F
        ELSE [F EXCEPT ![user_id].data =
                  [k \in DOMAIN data |->
                      IF k \in {"user_flow", "amount_flow"} THEN "abandoned" ELSE data[k]]]

\* a flow-start button without its privilege check
FlowStart_unchecked(user_id, state) ==
    /\ fsm' = set_state(abandon(fsm, user_id), user_id, state)
    /\ out' = [kind |-> "prompt", to |-> user_id]
    /\ UNCHANGED <<users, partners, purchases, tasks, now>>

\* a flow-start button: the privilege check, then set_state
FlowStart(user_id, state) ==
    /\ IF is_admin(user_id)
       THEN /\ fsm' = set_state(abandon(fsm, user_id), user_id, state)
            /\ out' = [kind |-> "prompt", to |-> user_id]
       ELSE /\ fsm' = fsm
            /\ out' = [kind |-> "no_access", to |-> user_id]
    /\ UNCHANGED <<users, partners, purchases, tasks, now>>

\* a text reply in a state, from an account that is no administrator
Reject(user_id) ==
    /\ fsm' = clear(fsm, user_id)
    /\ out' = [kind |-> "no_access", to |-> user_id]
    /\ UNCHANGED <<users, partners, purchases, tasks, now>>

(***************************************************************************)
(* Add partner                                                             *)
(***************************************************************************)
partner_add_start(user_id) == FlowStart(user_id, "waiting_username")

\* the reply arrives: privilege check and get_partner_by_username
partner_add_process(user_id, text) ==
    /\ fsm[user_id].state = "waiting_username"
    /\ IF ~is_admin(user_id)
       THEN Reject(user_id)
       ELSE LET username == handle_of(text)
            IN  IF get_partner_by_username(partners, username) # {}
                THEN /\ fsm' = clear(fsm, user_id)
                     /\ out' = [kind |-> "already_partner", to |-> user_id]
                     /\ UNCHANGED <<users, partners, purchases, tasks, now>>
                ELSE /\ CanSpawn
                     /\ Spawn([kind |-> "partner_add", pc |-> "get_user",
                               text |-> text,
                               uid |-> user_id, username |-> username])
                     /\ out' = NoOut
                     /\ UNCHANGED <<users, partners, purchases, fsm, now>>

\* get_user_by_username: fetchone() of a query without ORDER BY returns any
\* one of the matching rows
partner_add_get_user(t) ==
    /\ t.kind = "partner_add" /\ t.pc = "get_user"
    /\ LET found == get_user_by_username(users, t.username)
       IN  \E user_id \in (IF found = {} THEN {0} ELSE {u.user_id : u \in found}) :
               Step(t, [kind |-> "partner_add", pc |-> "insert", uid |-> t.uid,
                        text |-> t.text, username |-> t.username,
                        user_id |-> user_id])
    /\ out' = NoOut
    /\ UNCHANGED <<users, partners, purchases, fsm, now>>

\* generate_partner_code(), add_partner, bot.get_me(), the answer and
\* state.clear().  collaborators is "ok", or "fails" when bot.get_me() or
\* the sending of the success answer raises: the handler's except branch then
\* sends its failure answer.
partner_add_commit(t, partner_code, collaborators) ==
    /\ t.kind = "partner_add" /\ t.pc = "insert"
    /\ LET row == partners_row(partner_code, t.username, t.user_id, now)
       IN  IF partners_pk_conflict(partners, row)
           THEN /\ partners' = partners
                /\ out' = [kind |-> "add_failed", to |-> t.uid]
           ELSE /\ partners' = partners_insert(partners, row)
                /\ out' = IF collaborators = "ok"
                          THEN [kind |-> "partner_added", to |-> t.uid,
                                partner_code |-> partner_code]
                          ELSE [kind |-> "add_exception", to |-> t.uid]
    /\ fsm' = clear(fsm, t.uid)
    /\ Finish(t)
    /\ UNCHANGED <<users, purchases, now>>

\* the insert step with collaborators that answer
partner_add_insert(t, partner_code) == partner_add_commit(t, partner_code, "ok")

(***************************************************************************)
(* Delete partner                                                          *)
(***************************************************************************)
partner_delete_start(user_id) == FlowStart(user_id, "waiting_delete_username")

\* the reply arrives: privilege check and remove_partner's SELECT
partner_delete_process(user_id, text) ==
    /\ fsm[user_id].state = "waiting_delete_username"
    /\ IF ~is_admin(user_id)
       THEN Reject(user_id)
       ELSE LET username == handle_of(text)
            IN  IF get_partner_by_username(partners, username) = {}
                THEN /\ fsm' = clear(fsm, user_id)
                     /\ out' = [kind |-> "not_partner", to |-> user_id]
                     /\ UNCHANGED <<users, partners, purchases, tasks, now>>
                ELSE /\ CanSpawn
                     /\ Spawn([kind |-> "partner_delete", pc |-> "delete",
                               uid |-> user_id, username |-> username])
                     /\ out' = NoOut
                     /\ UNCHANGED <<users, partners, purchases, fsm, now>>

\* a delete that also clears the ref_partner_code of the partner's users
partner_delete_commit_cascade(t) ==
    /\ t.kind = "partner_delete" /\ t.pc = "delete"
    /\ partners' = partners_delete(partners, t.username)
    /\ users' = { IF \E p \in get_partner_by_username(partners, t.username) :
                        p.partner_code = u.ref_partner_code
                  THEN [u EXCEPT !.ref_partner_code = None] ELSE u : u \in users }
    /\ out' = [kind |-> "partner_deleted", to |-> t.uid]
    /\ fsm' = clear(fsm, t.uid)
    /\ Finish(t)
    /\ UNCHANGED <<purchases, now>>

\* remove_partner's DELETE and commit, the answer and state.clear()
partner_delete_commit(t) ==
    /\ t.kind = "partner_delete" /\ t.pc = "delete"
    /\ partners' = partners_delete(partners, t.username)
    /\ out' = [kind |-> "partner_deleted", to |-> t.uid]
    /\ fsm' = clear(fsm, t.uid)
    /\ Finish(t)
    /\ UNCHANGED <<users, purchases, now>>

(***************************************************************************)
(* Search users                                                            *)
(***************************************************************************)
users_search_start(user_id) == FlowStart(user_id, "waiting_query")

\* the reply arrives: the privilege check
users_search_process(user_id, text) ==
    /\ fsm[user_id].state = "waiting_query"
    /\ IF ~is_admin(user_id)
       THEN Reject(user_id)
       ELSE /\ CanSpawn
            /\ Spawn([kind |-> "users_search", pc |-> "search", uid |-> user_id,
                      text |-> text])
            /\ out' = NoOut
            /\ UNCHANGED <<users, partners, purchases, fsm, now>>

\* search_users, the answer and state.clear()
users_search_answer(t) ==
    /\ t.kind = "users_search" /\ t.pc = "search"
    /\ out' = [kind |-> "search_results", to |-> t.uid,
               users |-> search_users(users, t.text)]
    /\ fsm' = clear(fsm, t.uid)
    /\ Finish(t)
    /\ UNCHANGED <<users, partners, purchases, now>>

(***************************************************************************)
(* Add purchase                                                            *)
(***************************************************************************)
purchase_add_start(user_id) == FlowStart(user_id, "waiting_user_input")

\* the identifier reply arrives: the privilege check
purchase_user_input(user_id, text) ==
    /\ fsm[user_id].state = "waiting_user_input"
    /\ IF ~is_admin(user_id)
       THEN Reject(user_id)
       ELSE /\ CanSpawn
            /\ Spawn([kind |-> "purchase_user_input", pc |-> "lookup", uid |-> user_id,
                      text |-> text])
            /\ out' = NoOut
            /\ UNCHANGED <<users, partners, purchases, fsm, now>>

\* a lookup step that ends the flow when no user is found
purchase_user_lookup_abort(t) ==
    /\ t.kind = "purchase_user_input" /\ t.pc = "lookup"
    /\ get_user_by_id_or_username(users, t.text) = {}
    /\ fsm' = clear(fsm, t.uid)
    /\ out' = [kind |-> "user_not_found", to |-> t.uid]
    /\ Finish(t)
    /\ UNCHANGED <<users, partners, purchases, now>>

\* get_user_by_id_or_username returns: without a user the re-prompt and
\* return, with a user update_data
purchase_user_lookup(t) ==
    /\ t.kind = "purchase_user_input" /\ t.pc = "lookup"
    /\ LET found == get_user_by_id_or_username(users, t.text)
       IN  IF found = {}
           THEN /\ fsm' = fsm
                /\ out' = [kind |-> "user_not_found", to |-> t.uid]
                /\ Finish(t)
           ELSE \E user \in found :
                    /\ fsm' = update_data(fsm, t.uid,
                                  [user_id |-> user.user_id, username |-> user.username,
                                   first_name |-> user.first_name, user_flow |-> "current"])
                    /\ out' = NoOut
                    /\ Step(t, [kind |-> "purchase_user_input", pc |-> "set_state",
                                uid |-> t.uid])
    /\ UNCHANGED <<users, partners, purchases, now>>

\* the answer has been sent: set_state(waiting_amount)
purchase_user_set_state(t) ==
    /\ t.kind = "purchase_user_input" /\ t.pc = "set_state"
    /\ fsm' = set_state(fsm, t.uid, "waiting_amount")
    /\ out' = [kind |-> "user_found", to |-> t.uid]
    /\ Finish(t)
    /\ UNCHANGED <<users, partners, purchases, now>>

\* the amount reply arrives: the privilege check, float(), the sign check
\* and update_data
purchase_amount_input(user_id, text) ==
    /\ fsm[user_id].state = "waiting_amount"
    /\ IF ~is_admin(user_id)
       THEN Reject(user_id)
       ELSE LET amount == float(text)
            IN  IF amount.cls = ValueError
                THEN /\ out' = [kind |-> "bad_amount_format", to |-> user_id]
                     /\ UNCHANGED <<users, partners, purchases, fsm, tasks, now>>
                ELSE IF le_zero(amount)
                THEN /\ out' = [kind |-> "amount_not_positive", to |-> user_id]
                     /\ UNCHANGED <<users, partners, purchases, fsm, tasks, now>>
                ELSE /\ CanSpawn
                     /\ fsm' = update_data(fsm, user_id,
                                   [amount |-> amount, amount_flow |-> "current"])
                     /\ Spawn([kind |-> "purchase_amount_input", pc |-> "set_state",
                               uid |-> user_id])
                     /\ out' = NoOut
                     /\ UNCHANGED <<users, partners, purchases, now>>

\* the answer has been sent: set_state(waiting_comment)
purchase_amount_set_state(t) ==
    /\ t.kind = "purchase_amount_input" /\ t.pc = "set_state"
    /\ fsm' = set_state(fsm, t.uid, "waiting_comment")
    /\ out' = [kind |-> "amount_accepted", to |-> t.uid]
    /\ Finish(t)
    /\ UNCHANGED <<users, partners, purchases, now>>

\* the comment reply arrives: the privilege check, the sentinel and
\* get_data; a missing key raises KeyError and ends the handler
purchase_comment_input(user_id, text) ==
    /\ fsm[user_id].state = "waiting_comment"
    /\ IF ~is_admin(user_id)
       THEN Reject(user_id)
       ELSE LET comment == comment_of(text)
                data == fsm[user_id].data
            IN  IF ~({"user_id", "username", "first_name", "amount"} \subseteq DOMAIN data)
                THEN /\ out' = [kind |-> "KeyError", to |-> user_id]
                     /\ UNCHANGED <<users, partners, purchases, fsm, tasks, now>>
                ELSE /\ CanSpawn
                     /\ Len(purchases) < MaxPurchases
                     /\ Spawn([kind |-> "purchase_comment_input", pc |-> "add_purchase",
                               uid |-> user_id, user_id |-> data.user_id,
                               amount |-> data.amount, comment |-> comment,
                               user_flow |-> data.user_flow,
                               amount_flow |-> data.amount_flow])
                     /\ out' = NoOut
                     /\ UNCHANGED <<users, partners, purchases, fsm, now>>

\* add_purchase returns (False when the store raised), the answer and
\* state.clear()
purchase_comment_add_purchase(t, success) ==
    /\ t.kind = "purchase_comment_input" /\ t.pc = "add_purchase"
    /\ IF success
       THEN /\ purchases' = Append(purchases,
                                   purchases_row(t.user_id, t.amount, t.comment, now))
            /\ out' = [kind |-> "purchase_added", to |-> t.uid]
       ELSE /\ purchases' = purchases
            /\ out' = [kind |-> "purchase_failed", to |-> t.uid]
    /\ fsm' = clear(fsm, t.uid)
    /\ Finish(t)
    /\ UNCHANGED <<users, partners, now>>

(***************************************************************************)
(* Paged views: all users, all purchases                                   *)
(***************************************************************************)
\* show_users_page: limit = 15; show_purchases_page: limit = 10
UsersPageSize == 15
PurchasesPageSize == 10

\* the OFFSET dropped from the page query
offset_of_first(page, limit) == 0

\* offset = page * limit
offset_of(page, limit) == page * limit

\* if total > limit: if page > 0: the previous-page button
has_prev(page, total, limit) == total > limit /\ page > 0

\* if total > limit: if (page + 1) * limit < total: the next-page button
has_next(page, total, limit) == total > limit /\ (page + 1) * limit < total

\* the number of rows ORDER BY u.registered_at DESC puts before the row u;
\* rows registered at the same instant are taken by user_id
users_rank(U, u) ==
    Cardinality({v \in U : \/ v.registered_at > u.registered_at
                           \/ /\ v.registered_at = u.registered_at
                              /\ v.user_id < u.user_id})

\* get_all_users: SELECT COUNT(*) FROM users
get_all_users_total(U) == Cardinality(U)

\* get_all_users: ... ORDER BY u.registered_at DESC LIMIT ? OFFSET ?
\* (the user_ids of the rows)
get_all_users(U, limit, offset) ==
    {u.user_id : u \in {v \in U : /\ users_rank(U, v) >= offset
                                  /\ users_rank(U, v) < offset + limit}}

\* the number of rows ORDER BY p.created_at DESC puts before the row with
\* the id i; rows created at the same instant are taken by id
purchases_rank(S, i) ==
    Cardinality({j \in 1..Len(S) : \/ S[j].created_at > S[i].created_at
                                   \/ /\ S[j].created_at = S[i].created_at
                                      /\ j < i})

\* get_all_purchases: SELECT COUNT(*) FROM purchases
get_all_purchases_total(S) == Len(S)

\* get_all_purchases: ... ORDER BY p.created_at DESC LIMIT ? OFFSET ?
\* (the ids of the rows)
get_all_purchases(S, limit, offset) ==
    {i \in 1..Len(S) : /\ purchases_rank(S, i) >= offset
                       /\ purchases_rank(S, i) < offset + limit}

\* a callback from an account that is no administrator: the alert
NoAccess(user_id) ==
    /\ out' = [kind |-> "no_access", to |-> user_id]
    /\ UNCHANGED <<users, partners, purchases, fsm, tasks, now>>

\* show_users_page(callback, page) is entered
show_users_page(user_id, page) ==
    /\ CanSpawn
    /\ Spawn([kind |-> "users_page", pc |-> "count", uid |-> user_id, page |-> page])
    /\ out' = NoOut
    /\ UNCHANGED <<users, partners, purchases, fsm, now>>

\* the "admin_users" button
admin_users_menu(user_id) ==
    IF ~is_admin(user_id) THEN NoAccess(user_id) ELSE show_users_page(user_id, 0)

\* a "users_page_<page>" button
users_page_handler(user_id, page) ==
    IF ~is_admin(user_id) THEN NoAccess(user_id) ELSE show_users_page(user_id, page)

\* get_all_users: the COUNT
get_all_users_count(t) ==
    /\ t.kind = "users_page" /\ t.pc = "count"
    /\ Step(t, [kind |-> "users_page", pc |-> "select", uid |-> t.uid, page |-> t.page,
                total |-> get_all_users_total(users)])
    /\ out' = NoOut
    /\ UNCHANGED <<users, partners, purchases, fsm, now>>

\* get_all_users: the page query; the text and the keyboard are sent
show_users_page_answer(t) ==
    /\ t.kind = "users_page" /\ t.pc = "select"
    /\ out' = [kind |-> "users_page", to |-> t.uid, page |-> t.page, total |-> t.total,
               rows |-> get_all_users(users, UsersPageSize, offset_of(t.page, UsersPageSize)),
               prev |-> has_prev(t.page, t.total, UsersPageSize),
               next |-> has_next(t.page, t.total, UsersPageSize)]
    /\ Finish(t)
    /\ UNCHANGED <<users, partners, purchases, fsm, now>>

\* show_purchases_page(callback, page) is entered: its own privilege check
show_purchases_page(user_id, page) ==
    IF ~is_admin(user_id)
    THEN NoAccess(user_id)
    ELSE /\ CanSpawn
         /\ Spawn([kind |-> "purchases_page", pc |-> "count", uid |-> user_id,
                   page |-> page])
         /\ out' = NoOut
         /\ UNCHANGED <<users, partners, purchases, fsm, now>>

\* the "purchases_list" button
purchases_list(user_id) ==
    IF ~is_admin(user_id) THEN NoAccess(user_id) ELSE show_purchases_page(user_id, 0)

\* a "purchases_page_<page>" button
purchases_page_handler(user_id, page) ==
    IF ~is_admin(user_id) THEN NoAccess(user_id) ELSE show_purchases_page(user_id, page)

\* get_all_purchases: the COUNT
get_all_purchases_count(t) ==
    /\ t.kind = "purchases_page" /\ t.pc = "count"
    /\ Step(t, [kind |-> "purchases_page", pc |-> "select", uid |-> t.uid,
                page |-> t.page, total |-> get_all_purchases_total(purchases)])
    /\ out' = NoOut
    /\ UNCHANGED <<users, partners, purchases, fsm, now>>

\* get_all_purchases: the page query; the text and the keyboard are sent
show_purchases_page_answer(t) ==
    /\ t.kind = "purchases_page" /\ t.pc = "select"
    /\ out' = [kind |-> "purchases_page", to |-> t.uid, page |-> t.page,
               total |-> t.total,
               rows |-> get_all_purchases(purchases, PurchasesPageSize,
                                          offset_of(t.page, PurchasesPageSize)),
               prev |-> has_prev(t.page, t.total, PurchasesPageSize),
               next |-> has_next(t.page, t.total, PurchasesPageSize)]
    /\ Finish(t)
    /\ UNCHANGED <<users, partners, purchases, fsm, now>>

(***************************************************************************)
(* The clock                                                               *)
(***************************************************************************)
\* a day passes
Tick ==
    /\ now < MaxNow
    /\ now' = now + 1
    /\ out' = NoOut
    /\ UNCHANGED <<users, partners, purchases, fsm, tasks>>

(***************************************************************************)
(* Spec: attribution and partner management from an empty store.  Account  *)
(* 3 visits, account 1 administers.                                        *)
(***************************************************************************)
Next ==
    \/ \E prof \in Profiles, arg \in StartArgs : cmd_start(3, prof, arg)
    \/ \E t \in Running : add_user_select(t)
    \/ \E t \in Running : add_user_insert(t)
    \/ \E t \in Running : cmd_start_link(t)
    \/ \E t \in Running, res \in {"member", "left", "error"} : cmd_start_gate(t, res)
    \/ \E res \in {"member", "left", "error"} : check_subscription_callback(3, res)
    \/ partner_add_start(1)
    \/ \E text \in {<<"@", "alice">>} : partner_add_process(1, text)
    \/ \E t \in Running : partner_add_get_user(t)
    \/ \E t \in Running, c \in Codes : partner_add_insert(t, c)
    \/ partner_delete_start(1)
    \/ \E text \in {<<"alice">>} : partner_delete_process(1, text)
    \/ \E t \in Running : partner_delete_commit(t)

Spec == Init /\ [][Next]_vars

(***************************************************************************)
(* SpecLink: two accounts that present the same handle, and a partner      *)
(* added for that handle.                                                  *)
(***************************************************************************)
NextLink ==
    \/ \E user_id \in {2, 3}, prof \in Profiles, arg \in {<<>>, <<"ref_", "AAAA1111">>} :
           cmd_start(user_id, prof, arg)
    \/ \E t \in Running : add_user_select(t)
    \/ \E t \in Running : add_user_insert(t)
    \/ \E t \in Running : cmd_start_link(t)
    \/ \E t \in Running, res \in {"member", "left"} : cmd_start_gate(t, res)
    \/ partner_add_start(1)
    \/ \E text \in {<<"alice">>} : partner_add_process(1, text)
    \/ \E t \in Running : partner_add_get_user(t)
    \/ \E t \in Running : partner_add_insert(t, "AAAA1111")

SpecLink == Init /\ [][NextLink]_vars

(***************************************************************************)
(* SpecPartners: two administrators manage partners while account 3        *)
(* registers.                                                              *)
(***************************************************************************)
NextPartners ==
    \/ \E prof \in Profiles : cmd_start(3, prof, <<>>)
    \/ \E t \in Running : add_user_select(t)
    \/ \E t \in Running : add_user_insert(t)
    \/ \E t \in Running : cmd_start_link(t)
    \/ \E t \in Running : cmd_start_gate(t, "member")
    \/ \E user_id \in ADMIN_IDS : partner_add_start(user_id)
    \/ \E user_id \in ADMIN_IDS, text \in HandleTexts : partner_add_process(user_id, text)
    \/ \E t \in Running : partner_add_get_user(t)
    \/ \E t \in Running, c \in Codes : partner_add_insert(t, c)
    \/ \E user_id \in ADMIN_IDS : partner_delete_start(user_id)
    \/ \E user_id \in ADMIN_IDS, text \in HandleTexts : partner_delete_process(user_id, text)
    \/ \E t \in Running : partner_delete_commit(t)

SpecPartners == Init /\ [][NextPartners]_vars

(***************************************************************************)
(* SpecCabinet: the bot over a database file that has been in use for      *)
(* forty days.  Account 2 (alice) is the partner AAAA1111, accounts 4, 5   *)
(* and 6 came through its link 31, 8 and 3 days ago; account 3 is new.     *)
(***************************************************************************)
LegacyUser(user_id, ts, ref_partner_code) ==
    [users_row(user_id, [username |-> None, first_name |-> "Bo", last_name |-> "Lee"],
               ref_partner_code, ts) EXCEPT !.is_subscribed = 1]

InitCabinet ==
    /\ partners = {partners_row("AAAA1111", "alice", 2, 0 - 40)}
    /\ users = { users_row(2, [username |-> "alice", first_name |-> "Al", last_name |-> None],
                           None, 0 - 40),
                 LegacyUser(4, 0 - 31, "AAAA1111"),
                 LegacyUser(5, 0 - 8, "AAAA1111"),
                 LegacyUser(6, 0 - 3, "AAAA1111") }
    /\ purchases = <<>>
    /\ fsm = [a \in Accounts |-> IdleFsm]
    /\ tasks = EmptyBag
    /\ now = 0
    /\ out = NoOut

NextCabinet ==
    \/ \E prof \in Profiles, arg \in {<<>>, <<"ref_", "AAAA1111">>} : cmd_start(3, prof, arg)
    \/ \E t \in Running : add_user_select(t)
    \/ \E t \in Running : add_user_insert(t)
    \/ \E t \in Running : cmd_start_link(t)
    \/ \E t \in Running, res \in {"member", "left"} : cmd_start_gate(t, res)
    \/ \E user_id \in {2, 3}, res \in {"member", "left"} :
           check_subscription_callback(user_id, res)
    \/ \E user_id \in {2, 3} : cmd_ref(user_id)
    \/ \E t \in Running : cmd_ref_partner_code(t)
    \/ \E user_id \in {2, 3} : ref_stats_detail(user_id, "AAAA1111")
    \/ \E user_id \in {2, 3} : ref_users_list(user_id, "AAAA1111")
    \/ \E t \in Running : ref_users_list_purchases(t)
    \/ \E user_id \in {2, 3} : ref_menu_back(user_id)
    \/ \E t \in Running : stats_query_today(t)
    \/ \E t \in Running : stats_query_week(t)
    \/ \E t \in Running : stats_query_month(t)
    \/ \E t \in Running : stats_query_total(t)
    \/ Tick

SpecCabinet == InitCabinet /\ [][NextCabinet]_vars

(***************************************************************************)
(* SpecGate: the subscription gate over the database file of SpecCabinet.  *)
(* Accounts 2 (the partner) and 3 (new) are checked with every oracle      *)
(* result and open /ref.                                                   *)
(***************************************************************************)
NextGate ==
    \/ \E user_id \in {2, 3} :
           cmd_start(user_id, [username |-> "alice", first_name |-> "Al", last_name |-> None], <<>>)
    \/ \E t \in Running : add_user_select(t)
    \/ \E t \in Running : add_user_insert(t)
    \/ \E t \in Running : cmd_start_link(t)
    \/ \E t \in Running, res \in OracleResults : cmd_start_gate(t, res)
    \/ \E user_id \in {2, 3}, res \in OracleResults : check_subscription_callback(user_id, res)
    \/ \E user_id \in {2, 3} : cmd_ref(user_id)
    \/ \E t \in Running : cmd_ref_partner_code(t)
    \/ \E t \in Running : stats_query_today(t)
    \/ \E t \in Running : stats_query_week(t)
    \/ \E t \in Running : stats_query_month(t)
    \/ \E t \in Running : stats_query_total(t)

SpecGate == InitCabinet /\ [][NextGate]_vars

(***************************************************************************)
(* SpecPurchases: administrator 1 records purchases over the database      *)
(* file of SpecCabinet; replies and button presses arrive while earlier    *)
(* handlers are still awaiting.                                            *)
(***************************************************************************)
NextPurchases ==
    \/ purchase_add_start(1)
    \/ \E text \in IdTexts : purchase_user_input(1, text)
    \/ \E t \in Running : purchase_user_lookup(t)
    \/ \E t \in Running : purchase_user_set_state(t)
    \/ \E text \in AmountTexts : purchase_amount_input(1, text)
    \/ \E t \in Running : purchase_amount_set_state(t)
    \/ \E text \in CommentTexts : purchase_comment_input(1, text)
    \/ \E t \in Running, success \in BOOLEAN : purchase_comment_add_purchase(t, success)

SpecPurchases == InitCabinet /\ [][NextPurchases]_vars

(***************************************************************************)
(* SpecReply: the reply handlers applied to every conversation the storage *)
(* can hand them, over the database file of SpecCabinet.  Account 3 (no    *)
(* administrator) and administrator 1 start in any conversation state,     *)
(* with any of the data the add-purchase flow stores.                      *)
(***************************************************************************)
ConversationStates ==
    {"waiting_username", "waiting_delete_username", "waiting_query",
     "waiting_user_input", "waiting_amount", "waiting_comment"}

StoredUser ==
    [user_id |-> 4, username |-> None, first_name |-> "Bo", user_flow |-> "current"]

StoredData ==
    {<<>>, StoredUser, [amount |-> Finite(155), amount_flow |-> "current"] @@ StoredUser}

InitReply ==
    /\ partners = {partners_row("AAAA1111", "alice", 2, 0 - 40)}
    /\ users = { users_row(2, [username |-> "alice", first_name |-> "Al", last_name |-> None],
                           None, 0 - 40),
                 LegacyUser(4, 0 - 31, "AAAA1111") }
    /\ purchases = <<>>
    /\ \E s1, s3 \in ConversationStates, d1, d3 \in StoredData :
           fsm = [a \in Accounts |->
                     IF a = 1 THEN [state |-> s1, data |-> d1]
                     ELSE IF a = 3 THEN [state |-> s3, data |-> d3]
                     ELSE IdleFsm]
    /\ tasks = EmptyBag
    /\ now = 0
    /\ out = NoOut

NextReply ==
    \/ \E user_id \in {1, 3} : partner_add_process(user_id, <<"@", "bob">>)
    \/ \E t \in Running : partner_add_get_user(t)
    \/ \E t \in Running : partner_add_insert(t, "BBBB2222")
    \/ \E user_id \in {1, 3} : partner_delete_process(user_id, <<"alice">>)
    \/ \E t \in Running : partner_delete_commit(t)
    \/ \E user_id \in {1, 3} : users_search_process(user_id, <<"4">>)
    \/ \E t \in Running : users_search_answer(t)
    \/ \E user_id \in {1, 3} : purchase_user_input(user_id, <<"4">>)
    \/ \E t \in Running : purchase_user_lookup(t)
    \/ \E t \in Running : purchase_user_set_state(t)
    \/ \E user_id \in {1, 3} : purchase_amount_input(user_id, "15.5")
    \/ \E t \in Running : purchase_amount_set_state(t)
    \/ \E user_id \in {1, 3} : purchase_comment_input(user_id, "-")
    \/ \E t \in Running : purchase_comment_add_purchase(t, TRUE)

SpecReply == InitReply /\ [][NextReply]_vars

(***************************************************************************)
(* SpecAdmins: administrators 1 and 2 run add-purchase and search flows at *)
(* the same time over the database file of SpecCabinet.                    *)
(***************************************************************************)
NextAdmins ==
    \/ \E user_id \in ADMIN_IDS : purchase_add_start(user_id)
    \/ \E user_id \in ADMIN_IDS, text \in {<<"4">>, <<"bob">>} :
           purchase_user_input(user_id, text)
    \/ \E t \in Running : purchase_user_lookup(t)
    \/ \E t \in Running : purchase_user_set_state(t)
    \/ \E user_id \in ADMIN_IDS, text \in {"15.5", "abc"} :
           purchase_amount_input(user_id, text)
    \/ \E t \in Running : purchase_amount_set_state(t)
    \/ \E user_id \in ADMIN_IDS : purchase_comment_input(user_id, "-")
    \/ \E t \in Running : purchase_comment_add_purchase(t, TRUE)
    \/ \E user_id \in ADMIN_IDS : users_search_start(user_id)
    \/ \E user_id \in ADMIN_IDS : users_search_process(user_id, <<"lee">>)
    \/ \E t \in Running : users_search_answer(t)

SpecAdmins == InitCabinet /\ [][NextAdmins]_vars

(***************************************************************************)
(* SpecCollaborators: administrator 1 adds and deletes partners from an    *)
(* empty store while account 3 registers; bot.get_me() or the sending of   *)
(* the success answer can fail.                                            *)
(***************************************************************************)
NextCollaborators ==
    \/ \E prof \in Profiles : cmd_start(3, prof, <<>>)
    \/ \E t \in Running : add_user_select(t)
    \/ \E t \in Running : add_user_insert(t)
    \/ \E t \in Running : cmd_start_link(t)
    \/ \E t \in Running : cmd_start_gate(t, "member")
    \/ partner_add_start(1)
    \/ \E text \in HandleTexts : partner_add_process(1, text)
    \/ \E t \in Running : partner_add_get_user(t)
    \/ \E t \in Running, c \in Codes, collaborators \in {"ok", "fails"} :
           partner_add_commit(t, c, collaborators)
    \/ partner_delete_start(1)
    \/ \E text \in HandleTexts : partner_delete_process(1, text)
    \/ \E t \in Running : partner_delete_commit(t)

SpecCollaborators == Init /\ [][NextCollaborators]_vars

(***************************************************************************)
(* SpecSearch: administrator 1 searches users over the database file of    *)
(* SpecCabinet while account 3 registers.                                  *)
(***************************************************************************)
NextSearch ==
    \/ \E prof \in Profiles : cmd_start(3, prof, <<"ref_", "AAAA1111">>)
    \/ \E t \in Running : add_user_select(t)
    \/ \E t \in Running : add_user_insert(t)
    \/ \E t \in Running : cmd_start_link(t)
    \/ \E t \in Running, res \in {"member", "left"} : cmd_start_gate(t, res)
    \/ users_search_start(1)
    \/ \E text \in SearchTexts : users_search_process(1, text)
    \/ \E t \in Running : users_search_answer(t)

SpecSearch == InitCabinet /\ [][NextSearch]_vars

(***************************************************************************)
(* SpecPages: administrator 1 (and account 3, who is none) open pages of    *)
(* the all-users and the all-purchases view of a database file that has    *)
(* been in use: user 100+i registered i days ago; the purchases were       *)
(* recorded one a day for user 101, the latest yesterday.                  *)
(***************************************************************************)
MaxRows == 31
MaxPage == 3

PagedUsers(n) == {LegacyUser(100 + i, 0 - i, None) : i \in 1..n}

PagedPurchases(m) ==
    [i \in 1..m |-> purchases_row(101, Finite(155), "", i - m - 1)]

InitPages ==
    /\ \E n \in 0..MaxRows :
          \/ users = PagedUsers(n) /\ purchases = <<>>
          \/ users = PagedUsers(1) /\ purchases = PagedPurchases(n)
    /\ partners = {}
    /\ fsm = [a \in Accounts |-> IdleFsm]
    /\ tasks = EmptyBag
    /\ now = 0
    /\ out = NoOut

NextPages ==
    \/ \E user_id \in {1, 3} : admin_users_menu(user_id)
    \/ \E user_id \in {1, 3}, page \in 0..MaxPage : users_page_handler(user_id, page)
    \/ \E t \in Running : get_all_users_count(t)
    \/ \E t \in Running : show_users_page_answer(t)
    \/ \E user_id \in {1, 3} : purchases_list(user_id)
    \/ \E user_id \in {1, 3}, page \in 0..MaxPage : purchases_page_handler(user_id, page)
    \/ \E t \in Running : get_all_purchases_count(t)
    \/ \E t \in Running : show_purchases_page_answer(t)

SpecPages == InitPages /\ [][NextPages]_vars

(***************************************************************************)
(* SpecListing: accounts 2 and 3 open the purchases-by-referral listing of  *)
(* a database file that has been in use: partners alice (AAAA1111) and bob *)
(* (BBBB2222), accounts 4 and 5 attributed to AAAA1111, account 6 to       *)
(* BBBB2222, account 2 to nobody, and up to MaxListed purchases recorded   *)
(* two days ago or yesterday.                                              *)
(***************************************************************************)
MaxListed == 3

ListedPurchases ==
    UNION {{S \in [1..n -> {purchases_row(b, Finite(155), "", ts) :
                                b \in {2, 4, 5, 6}, ts \in {0 - 2, 0 - 1}}] :
               \A i, j \in 1..n : i < j => S[i].created_at <= S[j].created_at} :
           n \in 0..MaxListed}

InitListing ==
    /\ partners = {partners_row("AAAA1111", "alice", 2, 0 - 40),
                   partners_row("BBBB2222", "bob", 0, 0 - 40)}
    /\ users = { users_row(2, [username |-> "alice", first_name |-> "Al", last_name |-> None],
                           None, 0 - 40),
                 LegacyUser(4, 0 - 31, "AAAA1111"),
                 LegacyUser(5, 0 - 8, "AAAA1111"),
                 LegacyUser(6, 0 - 3, "BBBB2222") }
    /\ purchases \in ListedPurchases
    /\ fsm = [a \in Accounts |-> IdleFsm]
    /\ tasks = EmptyBag
    /\ now = 0
    /\ out = NoOut

NextListing ==
    \/ \E user_id \in {2, 3}, c \in Codes : ref_users_list(user_id, c)
    \/ \E t \in Running : ref_users_list_purchases(t)

SpecListing == InitListing /\ [][NextListing]_vars

(***************************************************************************)
(* SpecStats: administrator 1 records purchases for account 4 (attributed   *)
(* to AAAA1111) and account 2 (attributed to nobody) over the database file *)
(* of SpecCabinet, while account 2 reads the statistics of both codes and   *)
(* account 3 registers through the link of AAAA1111.                        *)
(***************************************************************************)
NextStats ==
    \/ cmd_start(3, [username |-> None, first_name |-> "Bo", last_name |-> "Lee"],
                 <<"ref_", "AAAA1111">>)
    \/ \E t \in Running : add_user_select(t)
    \/ \E t \in Running : add_user_insert(t)
    \/ \E t \in Running : cmd_start_gate(t, "left")
    \/ purchase_add_start(1)
    \/ \E text \in {<<"4">>, <<"@", "alice">>} : purchase_user_input(1, text)
    \/ \E t \in Running : purchase_user_lookup(t)
    \/ \E t \in Running : purchase_user_set_state(t)
    \/ purchase_amount_input(1, "15.5")
    \/ \E t \in Running : purchase_amount_set_state(t)
    \/ purchase_comment_input(1, "-")
    \/ \E t \in Running : purchase_comment_add_purchase(t, TRUE)
    \/ \E c \in Codes : ref_stats_detail(2, c)
    \/ \E t \in Running : stats_query_today(t)
    \/ \E t \in Running : stats_query_week(t)
    \/ \E t \in Running : stats_query_month(t)
    \/ \E t \in Running : stats_query_total(t)

SpecStats == InitCabinet /\ [][NextStats]_vars

(***************************************************************************)
(* SpecStarts: administrator 1 and account 3 (no administrator) press the   *)
(* four flow-start buttons and send text messages, over the database file  *)
(* of SpecCabinet with no conversation in the storage.                     *)
(***************************************************************************)
NextStarts ==
    \/ \E user_id \in {1, 3} : partner_add_start(user_id)
    \/ \E user_id \in {1, 3} : partner_delete_start(user_id)
    \/ \E user_id \in {1, 3} : users_search_start(user_id)
    \/ \E user_id \in {1, 3} : purchase_add_start(user_id)
    \/ \E user_id \in {1, 3} : partner_add_process(user_id, <<"@", "bob">>)
    \/ \E t \in Running : partner_add_get_user(t)
    \/ \E t \in Running : partner_add_insert(t, "BBBB2222")
    \/ \E user_id \in {1, 3} : partner_delete_process(user_id, <<"alice">>)
    \/ \E t \in Running : partner_delete_commit(t)
    \/ \E user_id \in {1, 3} : users_search_process(user_id, <<"4">>)
    \/ \E t \in Running : users_search_answer(t)
    \/ \E user_id \in {1, 3} : purchase_user_input(user_id, <<"4">>)
    \/ \E t \in Running : purchase_user_lookup(t)
    \/ \E t \in Running : purchase_user_set_state(t)
    \/ \E user_id \in {1, 3} : purchase_amount_input(user_id, "15.5")
    \/ \E t \in Running : purchase_amount_set_state(t)
    \/ \E user_id \in {1, 3} : purchase_comment_input(user_id, "-")
    \/ \E t \in Running : purchase_comment_add_purchase(t, TRUE)

SpecStarts == InitCabinet /\ [][NextStarts]_vars

(***************************************************************************)
(* SpecDelete: administrator 1 deletes partners from the database file of   *)
(* SpecListing with at most one purchase on record, while account 3 arrives *)
(* through a referral link and account 2 reads the statistics and the      *)
(* listing of both codes.                                                  *)
(***************************************************************************)
InitDelete == InitListing /\ Len(purchases) <= 1

NextDelete ==
    \/ partner_delete_start(1)
    \/ \E text \in {<<"alice">>, <<"@", "bob">>} : partner_delete_process(1, text)
    \/ \E t \in Running : partner_delete_commit(t)
    \/ \E c \in Codes :
           cmd_start(3, [username |-> None, first_name |-> "Bo", last_name |-> "Lee"],
                     <<"ref_", c>>)
    \/ \E t \in Running : add_user_select(t)
    \/ \E t \in Running : add_user_insert(t)
    \/ \E t \in Running : cmd_start_gate(t, "left")
    \/ \E c \in Codes : ref_stats_detail(2, c)
    \/ \E t \in Running : stats_query_today(t)
    \/ \E t \in Running : stats_query_week(t)
    \/ \E t \in Running : stats_query_month(t)
    \/ \E t \in Running : stats_query_total(t)
    \/ \E c \in Codes : ref_users_list(2, c)
    \/ \E t \in Running : ref_users_list_purchases(t)

SpecDelete == InitDelete /\ [][NextDelete]_vars

(***************************************************************************)
(* SpecRelink: administrator 1 adds the partners alice and bob to an empty  *)
(* store; account 3 sends /start, at one time under the handle alice and   *)
(* at another under the handle bob.                                        *)
(***************************************************************************)
RenamedProfiles ==
    { [username |-> h, first_name |-> "Al", last_name |-> None] : h \in {"alice", "bob"} }

NextRelink ==
    \/ \E prof \in RenamedProfiles : cmd_start(3, prof, <<>>)
    \/ \E t \in Running : add_user_select(t)
    \/ \E t \in Running : add_user_insert(t)
    \/ \E t \in Running : cmd_start_link(t)
    \/ \E t \in Running : cmd_start_gate(t, "member")
    \/ partner_add_start(1)
    \/ \E text \in {<<"alice">>, <<"bob">>} : partner_add_process(1, text)
    \/ \E t \in Running : partner_add_get_user(t)
    \/ \E t \in Running, c \in Codes : partner_add_insert(t, c)
    \/ cmd_ref(3)
    \/ \E t \in Running : cmd_ref_partner_code(t)
    \/ \E t \in Running : stats_query_today(t)
    \/ \E t \in Running : stats_query_week(t)
    \/ \E t \in Running : stats_query_month(t)
    \/ \E t \in Running : stats_query_total(t)

SpecRelink == Init /\ [][NextRelink]_vars

(***************************************************************************)
(* /admin and the menu buttons                                             *)
(***************************************************************************)
\* /admin answered with the panel and with no look at the conversation
cmd_admin_clearing(user_id) ==
    IF ~is_admin(user_id)
    THEN NoAccess(user_id)
    ELSE /\ out' = [kind |-> "admin_panel", to |-> user_id]
         /\ fsm' = [fsm EXCEPT ![user_id] = IdleFsm]
         /\ UNCHANGED <<users, partners, purchases, tasks, now>>

\* /admin: the privilege check and the panel; the handler takes no FSMContext
cmd_admin(user_id) ==
    IF ~is_admin(user_id)
    THEN NoAccess(user_id)
    ELSE /\ out' = [kind |-> "admin_panel", to |-> user_id]
         /\ UNCHANGED <<users, partners, purchases, fsm, tasks, now>>

\* the "admin_partners" button
admin_partners_menu(user_id) ==
    IF ~is_admin(user_id)
    THEN NoAccess(user_id)
    ELSE /\ out' = [kind |-> "partners_menu", to |-> user_id]
         /\ UNCHANGED <<users, partners, purchases, fsm, tasks, now>>

\* get_all_partners: SELECT * FROM partners
get_all_partners(P) == P

\* the "partners_list" button
partners_list(user_id) ==
    IF ~is_admin(user_id)
    THEN NoAccess(user_id)
    ELSE /\ out' = [kind |-> "partners_list", to |-> user_id,
                    rows |-> get_all_partners(partners)]
         /\ UNCHANGED <<users, partners, purchases, fsm, tasks, now>>

\* the "admin_purchases" button
admin_purchases(user_id) ==
    IF ~is_admin(user_id)
    THEN NoAccess(user_id)
    ELSE /\ out' = [kind |-> "purchases_menu", to |-> user_id]
         /\ UNCHANGED <<users, partners, purchases, fsm, tasks, now>>

\* the "admin_menu" button
admin_menu_back(user_id) ==
    IF ~is_admin(user_id)
    THEN NoAccess(user_id)
    ELSE /\ out' = [kind |-> "admin_menu", to |-> user_id]
         /\ UNCHANGED <<users, partners, purchases, fsm, tasks, now>>

(***************************************************************************)
(* SpecInterrupt: administrator 1, whose handle is bob, records a purchase  *)
(* for account 4 over the database file of SpecListing with no purchase on *)
(* record, and between the replies sends /start, /ref and /admin and       *)
(* presses the menu, list and pagination buttons.                          *)
(***************************************************************************)
InitInterrupt == InitListing /\ purchases = <<>>

AdminProfile == [username |-> "bob", first_name |-> "Bo", last_name |-> None]

NextInterrupt ==
    \/ purchase_add_start(1)
    \/ purchase_user_input(1, <<"4">>)
    \/ \E t \in Running : purchase_user_lookup(t)
    \/ \E t \in Running : purchase_user_set_state(t)
    \/ purchase_amount_input(1, "15.5")
    \/ \E t \in Running : purchase_amount_set_state(t)
    \/ purchase_comment_input(1, "-")
    \/ \E t \in Running : purchase_comment_add_purchase(t, TRUE)
    \/ cmd_start(1, AdminProfile, <<>>)
    \/ \E t \in Running : add_user_select(t)
    \/ \E t \in Running : add_user_insert(t)
    \/ \E t \in Running : cmd_start_link(t)
    \/ \E t \in Running : cmd_start_gate(t, "member")
    \/ cmd_ref(1)
    \/ \E t \in Running : cmd_ref_partner_code(t)
    \/ \E t \in Running : stats_query_today(t)
    \/ \E t \in Running : stats_query_week(t)
    \/ \E t \in Running : stats_query_month(t)
    \/ \E t \in Running : stats_query_total(t)
    \/ cmd_admin(1)
    \/ admin_partners_menu(1)
    \/ partners_list(1)
    \/ admin_purchases(1)
    \/ admin_menu_back(1)
    \/ admin_users_menu(1)
    \/ users_page_handler(1, 1)
    \/ \E t \in Running : get_all_users_count(t)
    \/ \E t \in Running : show_users_page_answer(t)
    \/ purchases_list(1)
    \/ purchases_page_handler(1, 1)
    \/ \E t \in Running : get_all_purchases_count(t)
    \/ \E t \in Running : show_purchases_page_answer(t)

SpecInterrupt == InitInterrupt /\ [][NextInterrupt]_vars

(***************************************************************************)
(* Properties                                                              *)
(***************************************************************************)
\* the task t takes the step of this transition
Steps(t) == CopiesIn(t, tasks') < CopiesIn(t, tasks)

\* the task t is created by this transition
Spawned(t) == CopiesIn(t, tasks') > CopiesIn(t, tasks)

\* C1: once a user row exists for an account id, no step changes its
\* ref_partner_code.
C1_FirstTouchPermanent ==
    [][\A u \in users : \A v \in users' :
           v.user_id = u.user_id => v.ref_partner_code = u.ref_partner_code]_vars

\* C1's case: a /start that resolved another valid code has been through
\* add_user for an account whose row holds a code.
C1_Witness ==
    \E t \in Running, u \in users :
        /\ t.kind = "cmd_start" /\ t.pc \in {"link", "gate"}
        /\ u.user_id = t.uid
        /\ u.ref_partner_code # None /\ t.ref_code # None
        /\ u.ref_partner_code # t.ref_code

\* C4: the users table never holds two rows for one account id; an insert
\* for an account id that has a row is rejected as a duplicate and leaves the
\* table, and so the winner's row, as it was.
C4_DuplicateInsertRejected ==
    [][/\ \A u \in users', v \in users' : u.user_id = v.user_id => u = v
       /\ \A t \in Running :
              (/\ t.kind = "cmd_start" /\ t.pc = "insert"
               /\ add_user_exists(users, t.uid)
               /\ Steps(t))
              => users' = users /\ out'.kind = "IntegrityError"]_vars

\* C4's case: a concurrent first-contact /start has lost the insert, and the
\* row standing is not the one it carried.
C4_Witness ==
    /\ out.kind = "IntegrityError"
    /\ \E u \in users : u.user_id = out.to /\ u.ref_partner_code # out.ref_code

\* the fields attribution records
AttributionFields(u) ==
    <<u.username, u.first_name, u.last_name, u.registered_at, u.ref_partner_code>>

\* C5: add_user for an account that has a row leaves that account with the
\* same single row: handle, names, registration timestamp and
\* ref_partner_code as after the first call.
C5_AttributionIdempotent ==
    [][\A t \in Running :
           (/\ t.kind = "cmd_start" /\ t.pc \in {"select", "insert"}
            /\ add_user_exists(users, t.uid)
            /\ Steps(t))
           => \A v \in users' : v.user_id = t.uid =>
                  \E u \in users :
                      /\ u.user_id = t.uid
                      /\ AttributionFields(v) = AttributionFields(u)]_vars

\* C5's case: on a later day a second /start with another handle and another
\* resolved code has been through add_user.
C5_Witness ==
    \E t \in Running, u \in users :
        /\ t.kind = "cmd_start" /\ t.pc \in {"link", "gate"}
        /\ u.user_id = t.uid
        /\ u.username # t.username
        /\ u.ref_partner_code # t.ref_code
        /\ u.registered_at < now

\* the argument is a token ref_<code>
IsToken(arg) == Len(arg) = 2 /\ arg[1] = "ref_" /\ arg[2] # "ref_"

GateKinds == {"welcome", "subscribe_prompt", "confirmed", "not_subscribed_alert"}

\* C10: a subscription check whose oracle call failed answers with the
\* subscribe prompt (the alert, on the button) and leaves the account's row,
\* if there is one, with is_subscribed = 0.
C10_OracleFailureIsNotSubscribed ==
    (out.kind \in GateKinds /\ out.failed)
    => /\ out.kind \in {"subscribe_prompt", "not_subscribed_alert"}
       /\ \A u \in users : u.user_id = out.to => u.is_subscribed = 0

\* C10's case: the oracle failed on /start and the row holds the false
\* verdict.
C10_Witness ==
    /\ out.kind = "subscribe_prompt" /\ out.failed
    /\ \E u \in users : u.user_id = out.to /\ u.is_subscribed = 0

\* C2: no two partner rows carry the same handle.
C2_OnePartnerRowPerHandle ==
    \A p \in partners, q \in partners : p.username = q.username => p = q

\* C3: a partner row whose linked account id is a real account id keeps that
\* id in every step.
C3_LinkNeverOverwritten ==
    [][\A p \in partners : p.user_id # 0 =>
           \A q \in partners' :
               q.partner_code = p.partner_code => q.user_id = p.user_id]_vars

\* C3's case: a /start by another account carrying the partner's handle has
\* been through the link step, and the row is linked as before.
C3_Witness ==
    \E t \in Running, p \in partners :
        /\ t.kind = "cmd_start" /\ t.pc = "gate"
        /\ t.username = p.username
        /\ p.user_id # 0 /\ p.user_id # t.uid

\* the partners table after the link step of a /start by account user_id
\* with handle username
Linked(P, username, user_id) ==
    { IF p.username = username /\ p.user_id = 0
      THEN partners_row(p.partner_code, p.username, user_id, p.created_at)
      ELSE p : p \in P }

\* C7: every /start handler of an account with a handle h, while a partner
\* row of handle h is unset, goes from add_user on to the link step, whatever
\* its argument and whether or not the user row existed; and the link step
\* links exactly the unset partner rows of handle h, so that a second one
\* changes nothing.
C7_LinkOnEveryStart ==
    [][\A t \in Running :
           /\ (/\ t.kind = "cmd_start" /\ t.pc \in {"select", "insert"}
               /\ \E p \in partners : p.username = t.prof.username /\ p.user_id = 0
               /\ Steps(t))
              => \E t2 \in BagToSet(tasks') :
                     /\ Spawned(t2)
                     /\ t2.kind = "cmd_start" /\ t2.uid = t.uid
                     /\ t2.pc \in {"insert", "link"}
           /\ (t.kind = "cmd_start" /\ t.pc = "link" /\ Steps(t))
              => /\ partners' = Linked(partners, t.username, t.uid)
                 /\ Linked(partners', t.username, t.uid) = partners']_vars

\* the answers that carry the four counts
StatsKinds == {"cmd_ref", "ref_stats_detail", "ref_menu_back"}

\* C8: every result of get_partner_stats has today <= week <= month <= total.
C8_StatsNested ==
    out.kind \in StatsKinds
    => /\ out.stats.today <= out.stats.week
       /\ out.stats.week <= out.stats.month
       /\ out.stats.month <= out.stats.total

\* C8's case: a result whose total counts a user registered after the month
\* query of the same call.
C8_Witness ==
    /\ out.kind \in StatsKinds
    /\ out.stats = [today |-> 0, week |-> 1, month |-> 2, total |-> 4]

\* the answers that carry partner data
CabinetKinds == StatsKinds \cup {"ref_users_list"}

\* C9: partner data goes only to a caller whose row has is_subscribed set:
\* the handler read the flag set, or the flag is set when it answers.
C9_CabinetRequiresSubscription ==
    out.kind \in CabinetKinds
    => (out.gate = "subscribed" \/ is_subscribed(users, out.to))

\* C11: after a subscription check the row of the account, if it has one,
\* holds the verdict of that check, 1 exactly when the oracle status is
\* member, administrator or creator, whatever it held before; and /ref goes
\* past its gate only for an account whose row holds 1.
C11_VerdictOverwrites ==
    [][/\ out'.kind \in GateKinds =>
              /\ out'.kind \in {"welcome", "confirmed"}
                     <=> out'.status \in {"member", "administrator", "creator"}
              /\ \A u \in users' : u.user_id = out'.to =>
                     u.is_subscribed =
                         IF out'.status \in {"member", "administrator", "creator"}
                         THEN 1 ELSE 0
       /\ \A t \in BagToSet(tasks') :
              (t.kind = "cmd_ref" /\ Spawned(t)) =>
                  \E u \in users : u.user_id = t.uid /\ u.is_subscribed = 1]_vars

\* C11's case: account 2 was subscribed when its /ref went past the gate; a
\* later negative check has overwritten the flag.
C11_Witness ==
    /\ out.kind \in {"subscribe_prompt", "not_subscribed_alert"}
    /\ out.to = 2
    /\ \E u \in users : u.user_id = 2 /\ u.is_subscribed = 0
    /\ \E t \in Running :
           t.kind = "get_partner_stats" /\ t.uid = 2 /\ t.gate = "subscribed"

\* the step is the processing of an event of the account, or a step of one
\* of its handlers
EventOf(user_id) ==
    \/ out' # NoOut /\ out'.to = user_id
    \/ \E t \in BagToSet(tasks) \cup BagToSet(tasks') :
           t.uid = user_id /\ (Steps(t) \/ Spawned(t))

\* C12: in each of the six conversation states a text reply of an account
\* that is no administrator is processed, and processing it clears the
\* state and the data of the conversation, answers with the rejection,
\* starts no handler work for the account and changes no partner row and
\* no purchase row.
C12_NonAdminReplyRejected ==
    /\ [](\A user_id \in Accounts \ ADMIN_IDS :
             fsm[user_id].state \in ConversationStates =>
                 ENABLED (NextReply /\ EventOf(user_id)))
    /\ [][\A user_id \in Accounts \ ADMIN_IDS :
              EventOf(user_id) =>
                  /\ fsm[user_id].state \in ConversationStates
                  /\ fsm'[user_id] = IdleFsm
                  /\ out' = [kind |-> "no_access", to |-> user_id]
                  /\ partners' = partners
                  /\ purchases' = purchases
                  /\ tasks' = tasks]_vars

C12_Witness ==
    /\ out = [kind |-> "no_access", to |-> 3]
    /\ fsm[3] = IdleFsm
    /\ fsm[1].state = "waiting_comment"
    /\ partners # {}
    /\ purchases = <<>>

\* C13: when the identifier reply of the add-purchase flow resolves to no
\* user, by id (99) or by handle (bob), the handler re-prompts and leaves the
\* conversation state and data and every table as they are; and in
\* waiting_user_input after the re-prompt a valid identifier is accepted.
C13_FailedLookupRetries ==
    /\ [](\A user_id \in ADMIN_IDS :
             (out = [kind |-> "user_not_found", to |-> user_id]
                  /\ fsm[user_id].state = "waiting_user_input") =>
                 ENABLED purchase_user_input(user_id, <<"4">>))
    /\ [][\A t \in Running :
              (t.kind = "purchase_user_input" /\ t.pc = "lookup" /\ Steps(t)) =>
                  IF t.text \in {<<"99">>, <<"bob">>}
                  THEN /\ out' = [kind |-> "user_not_found", to |-> t.uid]
                       /\ fsm' = fsm
                       /\ purchases' = purchases
                       /\ users' = users /\ partners' = partners
                       /\ ~(\E t2 \in BagToSet(tasks') : Spawned(t2))
                  ELSE /\ out' = NoOut
                       /\ "user_id" \in DOMAIN fsm'[t.uid].data]_vars

C13_Witness ==
    /\ out = [kind |-> "user_not_found", to |-> 1]
    /\ fsm[1].state = "waiting_user_input"
    /\ tasks = EmptyBag

\* a number greater than zero; plus infinity is counted as one
StrictlyPositive(amount) ==
    \/ amount.cls = "finite" /\ amount.v > 0
    \/ amount.cls = "inf"

\* C14: an amount reply that is answered with one of the two re-prompts
\* changes neither the conversation nor a table, and an amount reply that is
\* accepted (its handler goes on to set waiting_comment) has stored a
\* strictly positive number.
C14_InvalidAmountRejected ==
    [][/\ out'.kind \in {"bad_amount_format", "amount_not_positive"} =>
              /\ fsm' = fsm
              /\ purchases' = purchases
              /\ tasks' = tasks
       /\ \A t \in BagToSet(tasks') :
              (t.kind = "purchase_amount_input" /\ Spawned(t)) =>
                  StrictlyPositive(fsm'[t.uid].data.amount)]_vars

\* C15: every purchase row holds a strictly positive amount.
C15_PurchaseAmountsPositive ==
    \A i \in 1..Len(purchases) : StrictlyPositive(purchases[i].amount)

\* C16: every purchase row holds the id of an account that has a user row.
C16_BuyerExists ==
    \A i \in 1..Len(purchases) : \E u \in users : u.user_id = purchases[i].user_id

C16_Witness ==
    /\ Len(purchases) > 0
    /\ purchases[1].user_id = 2
    /\ \E u \in users : u.user_id = 2 /\ u.username = "alice"
    /\ out.kind = "user_not_found"

\* C17: the comment reply of an add-purchase flow takes the user and the
\* amount that the conversation holds and the comment text, a single dash
\* being the empty comment; when the store accepts the insert, exactly one
\* purchase row is appended, holding that user id, that amount when it is a
\* positive number, and that comment, and the administrator is told so; when
\* the store refuses, no row is added.
C17_OneRowPerCompletedFlow ==
    [][\A t \in BagToSet(tasks) \cup BagToSet(tasks') :
           t.kind = "purchase_comment_input" =>
               /\ Spawned(t) =>
                      /\ fsm[t.uid].state = "waiting_comment"
                      /\ t.user_id = fsm[t.uid].data.user_id
                      /\ t.amount = fsm[t.uid].data.amount
                      /\ t.comment \in {"", "club"}
                      /\ purchases' = purchases
               /\ Steps(t) =>
                      IF out'.kind = "purchase_added"
                      THEN /\ Len(purchases') = Len(purchases) + 1
                           /\ SubSeq(purchases', 1, Len(purchases)) = purchases
                           /\ LET row == purchases'[Len(purchases')]
                              IN  /\ row.user_id = t.user_id
                                  /\ StrictlyPositive(t.amount) => row.amount = t.amount
                                  /\ row.comment = t.comment
                      ELSE /\ out'.kind = "purchase_failed"
                           /\ purchases' = purchases]_vars

C17_Witness ==
    /\ out = [kind |-> "purchase_added", to |-> 1]
    /\ purchases = <<[user_id |-> 4, amount |-> Finite(155), comment |-> "",
                      created_at |-> 0]>>
    /\ fsm[1] = IdleFsm

\* C18: the user and the amount of every committed purchase were written to
\* the conversation after the latest flow start of that conversation: no
\* purchase is committed from a user or an amount that was stored before a
\* flow-start button was pressed.
C18_NoMergeAcrossFlows ==
    [][\A t \in Running :
           (t.kind = "purchase_comment_input" /\ Steps(t)
                /\ out'.kind = "purchase_added") =>
               /\ t.user_flow = "current"
               /\ t.amount_flow = "current"]_vars

\* the answers that end a flow
TerminalKinds ==
    {"partner_added", "add_failed", "add_exception", "already_partner", "partner_deleted",
     "not_partner", "search_results", "purchase_added", "purchase_failed"}

\* C19: a conversation in waiting_amount holds the resolved user, one in
\* waiting_comment holds the user and the amount, and a conversation whose
\* flow has just ended is idle and holds no data.
C19_DataCarriedThenDropped ==
    \A user_id \in ADMIN_IDS :
        LET conv == fsm[user_id]
        IN  /\ conv.state = "waiting_amount" => "user_id" \in DOMAIN conv.data
            /\ conv.state = "waiting_comment" =>
                   {"user_id", "amount"} \subseteq DOMAIN conv.data
            /\ (out.kind \in TerminalKinds /\ out.to = user_id) => conv = IdleFsm

\* C20: every step is the processing of an event, or a handler step, of
\* exactly one account, and it leaves the conversation state and data of
\* every other account as they are.
C20_ConversationsIsolated ==
    [][/\ \E user_id \in Accounts : EventOf(user_id)
       /\ \A user_id \in Accounts :
              EventOf(user_id) =>
                  \A other \in Accounts \ {user_id} :
                      /\ ~EventOf(other)
                      /\ fsm'[other] = fsm[other]]_vars

C20_Witness ==
    /\ fsm[1].state = "waiting_comment"
    /\ "amount" \in DOMAIN fsm[1].data
    /\ fsm[2].state = "waiting_amount"
    /\ "user_id" \in DOMAIN fsm[2].data
    /\ out = [kind |-> "user_found", to |-> 2]
    /\ Len(purchases) = 1

\* C21: an add-partner reply goes on to the insert only for a handle that
\* has no partner row; the reply for a handle that has one is answered with
\* "already a partner", changes no table, starts no further work and leaves
\* the conversation idle without data.
C21_DuplicateHandleRejected ==
    [][/\ \A t \in BagToSet(tasks') :
              (t.kind = "partner_add" /\ t.pc = "get_user" /\ Spawned(t)) =>
                  ~(\E p \in partners : p.username = t.username)
       /\ out'.kind = "already_partner" =>
              /\ fsm[out'.to].state = "waiting_username"
              /\ partners # {}
              /\ partners' = partners
              /\ users' = users /\ purchases' = purchases
              /\ tasks' = tasks
              /\ fsm'[out'.to] = IdleFsm]_vars

C21_Witness ==
    /\ out = [kind |-> "already_partner", to |-> 1]
    /\ fsm[1] = IdleFsm
    /\ \E p \in partners : p.username = "alice"

\* C22: the insert step of an add-partner reply is the last step of its
\* handler and leaves the conversation idle; it reports success only for a
\* code that no partner row held, adding exactly that row, and when it
\* reports failure the partners table is as it was.
C22_CodeCollisionFails ==
    [][\A t \in Running :
           (t.kind = "partner_add" /\ t.pc = "insert" /\ Steps(t)) =>
               /\ tasks' = tasks (-) SetToBag({t})
               /\ fsm'[t.uid] = IdleFsm
               /\ users' = users /\ purchases' = purchases
               /\ IF out'.kind = "partner_added"
                  THEN /\ ~(\E p \in partners : p.partner_code = out'.partner_code)
                       /\ partners' = partners \cup
                              {[partner_code |-> out'.partner_code, username |-> t.username,
                                user_id |-> t.user_id, created_at |-> now]}
                  ELSE /\ out' = [kind |-> "add_failed", to |-> t.uid]
                       /\ partners # {}
                       /\ partners' = partners]_vars

C22_Witness ==
    /\ out = [kind |-> "add_failed", to |-> 2]
    /\ fsm[2] = IdleFsm
    /\ partners = {[partner_code |-> "AAAA1111", username |-> "alice",
                    user_id |-> 0, created_at |-> 0]}

\* C23: the last step of an add-partner reply emits either the code or a
\* failure; it emits the code only when it added the partner row, and a
\* failure only when it left the partners table as it was.
C23_OutcomeAgreesWithStore ==
    [][\A t \in Running :
           (t.kind = "partner_add" /\ t.pc = "insert" /\ Steps(t)) =>
               /\ out'.kind \in {"partner_added", "add_failed", "add_exception"}
               /\ out'.kind = "partner_added" =>
                      /\ partners' # partners
                      /\ \E p \in partners' :
                             p.partner_code = out'.partner_code /\ p.username = t.username
               /\ out'.kind \in {"add_failed", "add_exception"} =>
                      partners' = partners]_vars

\* C24: a delete-partner reply for a handle without a partner row is
\* answered with not-found and leaves the partners table as it is; a reply
\* for a handle with a row goes on to the DELETE, after which no row of that
\* handle remains, the rows of other handles are as before, and success is
\* reported.  Either answer ends the handler and leaves the conversation
\* idle, and neither step changes users or purchases.
C24_DeleteIsTerminal ==
    [][/\ \A t \in BagToSet(tasks') :
              (t.kind = "partner_delete" /\ Spawned(t)) =>
                  /\ \E p \in partners : p.username = t.username
                  /\ fsm[t.uid].state = "waiting_delete_username"
                  /\ UNCHANGED <<partners, users, purchases>>
       /\ \A user_id \in ADMIN_IDS :
              (fsm[user_id].state = "waiting_delete_username"
                   /\ out' = [kind |-> "not_partner", to |-> user_id]) =>
                  /\ \E text \in HandleTexts :
                         ~(\E p \in partners : p.username = handle_of(text))
                  /\ fsm'[user_id] = IdleFsm
                  /\ tasks' = tasks
                  /\ UNCHANGED <<partners, users, purchases>>
       /\ \A t \in Running :
              (t.kind = "partner_delete" /\ Steps(t)) =>
                  /\ out' = [kind |-> "partner_deleted", to |-> t.uid]
                  /\ partners' = {p \in partners : p.username # t.username}
                  /\ fsm'[t.uid] = IdleFsm
                  /\ tasks' = tasks (-) SetToBag({t})
                  /\ UNCHANGED <<users, purchases>>]_vars

C24_Witness ==
    /\ out = [kind |-> "partner_deleted", to |-> 1]
    /\ fsm[1] = IdleFsm
    /\ \E p \in partners : p.username = "bob"
    /\ ~(\E p \in partners : p.username = "alice")
    /\ users # {}

\* C25: a search reply is taken only in waiting_query and changes no table;
\* its answer, with the matches of the query (none for zzz), ends the
\* handler, leaves the conversation idle and changes no table.
C25_SearchIsTerminal ==
    [][\A t \in BagToSet(tasks) \cup BagToSet(tasks') :
           t.kind = "users_search" =>
               /\ Spawned(t) =>
                      /\ fsm[t.uid].state = "waiting_query"
                      /\ UNCHANGED <<users, partners, purchases>>
               /\ Steps(t) =>
                      /\ out'.kind = "search_results" /\ out'.to = t.uid
                      /\ out'.users =
                             CASE t.text = <<"4">> -> {4}
                               [] t.text = <<"@", "alice">> ->
                                      {u.user_id : u \in {v \in users : v.username = "alice"}}
                               [] t.text = <<"lee">> ->
                                      {u.user_id : u \in {v \in users : v.last_name = "Lee"}}
                               [] OTHER -> {}
                      /\ fsm'[t.uid] = IdleFsm
                      /\ tasks' = tasks (-) SetToBag({t})
                      /\ UNCHANGED <<users, partners, purchases>>]_vars

C25_Witness ==
    /\ out = [kind |-> "search_results", to |-> 1, users |-> {}]
    /\ fsm[1] = IdleFsm
    /\ tasks = EmptyBag
    /\ \E u \in users : u.user_id = 3

\* the page size of the view an answer belongs to
PageSizeOf(o) == IF o.kind = "users_page" THEN UsersPageSize ELSE PurchasesPageSize

\* the rows of the table, newest first, from position a + 1 to position b
NewestFirst(kind, a, b) ==
    IF kind = "users_page"
    THEN {100 + i : i \in (a + 1)..b} \cap {u.user_id : u \in users}
    ELSE {i \in 1..Len(purchases) : Len(purchases) - i >= a /\ Len(purchases) - i < b}

\* C26: every page of the all-users view (page size 15) and of the
\* all-purchases view (page size 10) offers the previous-page control iff
\* its page index is above 0, offers the next-page control iff
\* (page index + 1) x page size < total, and shows the rows that start at the
\* offset page index x page size.
C26_ControlsFollowIndex ==
    out.kind \in {"users_page", "purchases_page"} =>
        /\ out.prev <=> out.page > 0
        /\ out.next <=> (out.page + 1) * PageSizeOf(out) < out.total
        /\ out.rows = NewestFirst(out.kind, out.page * PageSizeOf(out),
                                  out.page * PageSizeOf(out) + PageSizeOf(out))

Unprefixed(text) == text_of(IF startswith(text, "@") THEN Tail(text) ELSE text)

\* C28: round trip of the add-partner flow: when the flow succeeds, the
\* lookup by the generated code returns one record; its handle is the
\* submitted one and its linked account id is the one the flow resolved,
\* which is the id of an existing user with that handle, or 0 (unset) if
\* there was none.
C28_RoundTrip ==
    [][\A t \in Running :
           /\ (t.kind = "partner_add" /\ t.pc = "get_user" /\ Steps(t)) =>
                  \E t2 \in BagToSet(tasks') :
                      /\ t2.kind = "partner_add" /\ t2.pc = "insert" /\ Spawned(t2)
                      /\ t2.text = t.text
                      /\ IF \E u \in users : u.username = Unprefixed(t.text)
                         THEN \E u \in users : /\ u.username = Unprefixed(t.text)
                                               /\ u.user_id = t2.user_id
                         ELSE t2.user_id = 0
           /\ (/\ t.kind = "partner_add" /\ t.pc = "insert" /\ Steps(t)
               /\ out'.kind = "partner_added") =>
                  \E p \in partners' :
                      /\ get_partner_by_code(partners', out'.partner_code) = {p}
                      /\ p.username = Unprefixed(t.text)
                      /\ p.user_id = t.user_id]_vars

C28_Witness ==
    /\ out = [kind |-> "partner_added", to |-> 1, partner_code |-> "BBBB2222"]
    /\ \E p \in get_partner_by_code(partners, "BBBB2222") :
           p.username = "alice" /\ p.user_id = 3
    /\ \E p \in get_partner_by_code(partners, "AAAA1111") :
           p.username = "bob" /\ p.user_id = 0

\* C29: the purchases-by-referral listing for a partner code holds exactly
\* the purchase rows whose buyer's user row carries that code as its
\* ref_partner_code, each of them once, ordered newest first.
C29_ListingByBuyerAttribution ==
    out.kind = "ref_users_list" =>
        LET rows == out.purchases
        IN  /\ {rows[a] : a \in 1..Len(rows)} =
                   {i \in 1..Len(purchases) :
                       \E u \in users : /\ u.user_id = purchases[i].user_id
                                        /\ u.ref_partner_code = out.partner_code}
            /\ \A a, b \in 1..Len(rows) : a < b =>
                   /\ rows[a] # rows[b]
                   /\ purchases[rows[a]].created_at >= purchases[rows[b]].created_at

C29_Witness ==
    /\ out.kind = "ref_users_list" /\ out.partner_code = "AAAA1111"
    /\ out.purchases = <<3, 1>>
    /\ purchases[1].user_id = 4 /\ purchases[1].created_at = 0 - 2
    /\ purchases[2].user_id = 6
    /\ purchases[3].user_id = 5 /\ purchases[3].created_at = 0 - 1

\* C30: a purchase row is created only by the comment step of an
\* add-purchase flow run by an administrator: the step belongs to a reply
\* that arrived in the state waiting_comment from an administrator, and it
\* appends one row; no step modifies or deletes a purchase row, so the
\* number of purchase rows never decreases.
C30_PurchasesAppendOnly ==
    [][/\ Len(purchases') >= Len(purchases)
       /\ \A i \in 1..Len(purchases) : purchases'[i] = purchases[i]
       /\ purchases' # purchases =>
              /\ Len(purchases') = Len(purchases) + 1
              /\ \E t \in Running :
                     /\ Steps(t)
                     /\ t.kind = "purchase_comment_input" /\ t.pc = "add_purchase"
                     /\ t.uid \in ADMIN_IDS
                     /\ purchases'[Len(purchases')].user_id = t.user_id
       /\ \A t \in BagToSet(tasks') :
              (t.kind = "purchase_comment_input" /\ Spawned(t)) =>
                  /\ t.uid \in ADMIN_IDS
                  /\ fsm[t.uid].state = "waiting_comment"]_vars

C30_Witness ==
    /\ Len(purchases) = 1
    /\ purchases[1].user_id = 4
    /\ out = [kind |-> "purchase_added", to |-> 1]
    /\ fsm[3].state = "waiting_comment"

\* C31: a user row is never deleted, and no step changes its handle, given
\* or family name, registration timestamp or ref_partner_code: only the
\* subscription flag of a row that exists can change, also when the account
\* comes back with another handle or name.
C31_UserRowFrozen ==
    [][\A u \in users :
           \E v \in users' :
               /\ v.user_id = u.user_id
               /\ AttributionFields(v) = AttributionFields(u)]_vars

\* C31's case: account 3, registered earlier under one handle and name and
\* since then subscribed, is back with another handle and name and has been
\* through add_user.
C31_Witness ==
    \E t \in Running, u \in users :
        /\ t.kind = "cmd_start" /\ t.pc = "gate" /\ t.uid = 3
        /\ u.user_id = 3
        /\ u.username = "alice" /\ t.username = None
        /\ u.is_subscribed = 1
        /\ u.registered_at < now

\* C32: a /start creates a user row with the ref_partner_code C only when
\* its argument is exactly "ref_" followed by C; a /start with no argument
\* or with one that does not start with "ref_" creates the row without a
\* code.
C32_AttributionOnlyByExactToken ==
    [][\A t \in Running :
           (t.kind = "cmd_start" /\ t.pc = "insert" /\ Steps(t)) =>
               \A v \in users' \ users :
                   /\ v.ref_partner_code # None =>
                          t.arg = <<"ref_", v.ref_partner_code>>
                   /\ (t.arg = <<>> \/ t.arg[1] # "ref_") =>
                          v.ref_partner_code = None]_vars

\* the four counts of a partner code over a users table at a time
CountsOf(U, partner_code, ts) ==
    [today |-> stats_today(U, partner_code, ts),
     week  |-> stats_week(U, partner_code, ts),
     month |-> stats_month(U, partner_code, ts),
     total |-> stats_total(U, partner_code)]

\* C33: the total of every statistics answer is the number of user rows
\* whose ref_partner_code is the code asked for, and the step that records a
\* purchase changes none of the four counts of any code.
C33_StatsCountUsersOnly ==
    [][/\ out'.kind = "ref_stats_detail" =>
              out'.stats.total =
                  Cardinality({u \in users' : u.ref_partner_code = out'.partner_code})
       /\ purchases' # purchases =>
              \A c \in Codes : CountsOf(users', c, now') = CountsOf(users, c, now)]_vars

\* C33's case: purchases for an attributed buyer are on record and the
\* statistics of the buyer's code are answered.
C33_Witness ==
    /\ Len(purchases) = 1 /\ purchases[1].user_id = 4
    /\ out.kind = "ref_stats_detail" /\ out.partner_code = "AAAA1111"
    /\ out.stats.total = 4

\* C34: the add-purchase flow only moves forward: a conversation enters
\* waiting_amount only from waiting_user_input, in the step of an identifier
\* reply that resolved a user, and waiting_comment only from waiting_amount,
\* in the step of an accepted amount reply; a purchase is committed only for
\* a comment reply that arrived in waiting_comment, from data that holds a
\* resolved user and a strictly positive amount.
C34_FlowOnlyMovesForward ==
    [][/\ \A a \in Accounts :
              /\ (fsm'[a].state = "waiting_amount" /\ fsm[a].state # "waiting_amount") =>
                     /\ fsm[a].state = "waiting_user_input"
                     /\ "user_id" \in DOMAIN fsm'[a].data
              /\ (fsm'[a].state = "waiting_comment" /\ fsm[a].state # "waiting_comment") =>
                     /\ fsm[a].state = "waiting_amount"
                     /\ {"user_id", "amount"} \subseteq DOMAIN fsm'[a].data
       /\ \A t \in BagToSet(tasks') :
              (t.kind = "purchase_comment_input" /\ Spawned(t)) =>
                  fsm[t.uid].state = "waiting_comment"
       /\ \A t \in Running :
              (t.kind = "purchase_comment_input" /\ Steps(t)
                   /\ purchases' # purchases) =>
                  /\ \E u \in users : u.user_id = t.user_id
                  /\ StrictlyPositive(t.amount)]_vars

\* C35: an account that is no administrator never has a conversation state
\* or conversation data, so no reply of such an account is ever dispatched
\* to a flow handler and the handlers' rejection branch is never taken.
C35_NonAdminsStayIdle ==
    \A a \in Accounts \ ADMIN_IDS : fsm[a] = IdleFsm

\* C35's case: account 3 has pressed a flow-start button and was refused
\* while administrator 1 is in the middle of a flow.
C35_Witness ==
    /\ out = [kind |-> "no_access", to |-> 3]
    /\ fsm[1].state = "waiting_comment"
    /\ fsm[3] = IdleFsm

\* C36: a user row with a ref_partner_code is created only while a partner
\* row with that code exists: no step inserts a user row that carries the
\* code of a partner that has been deleted.
C36_AttributedWhilePartnerExists ==
    [][\A v \in users' \ users :
           v.ref_partner_code # None =>
               get_partner_by_code(partners, v.ref_partner_code) # {}]_vars

\* C37: the step that deletes a partner removes the partner rows of the
\* handle and changes nothing else: every user row, with its
\* ref_partner_code, and every purchase row stay, so the four counts and
\* the purchases-by-referral listing of every code are what they were before
\* the step; and a /start that arrives with the token of a code that has no
\* partner row goes on without a code.
C37_DeleteTouchesPartnersOnly ==
    [][/\ \A t \in Running :
              (t.kind = "partner_delete" /\ t.pc = "delete" /\ Steps(t)) =>
                  /\ partners' = {p \in partners : p.username # t.username}
                  /\ users' = users
                  /\ purchases' = purchases
                  /\ \A c \in Codes :
                         /\ CountsOf(users', c, now') = CountsOf(users, c, now)
                         /\ get_purchases_by_ref(users', purchases', c) =
                                get_purchases_by_ref(users, purchases, c)
       /\ \A t \in BagToSet(tasks') :
              (/\ t.kind = "cmd_start" /\ t.pc = "select" /\ Spawned(t)
               /\ IsToken(t.arg)
               /\ \A p \in partners : p.partner_code # t.arg[2]) =>
                  t.ref_code = None]_vars

\* C37's case: the partner of AAAA1111 is deleted; the statistics of
\* AAAA1111 still count its two users, the purchase of one of them is on
\* record, and account 3, who came with ref_AAAA1111, has a row without a
\* code.
C37_Witness ==
    /\ get_partner_by_code(partners, "AAAA1111") = {}
    /\ out.kind = "ref_stats_detail" /\ out.partner_code = "AAAA1111"
    /\ out.stats.total = 2
    /\ Len(purchases) = 1 /\ purchases[1].user_id = 4
    /\ \E u \in users : u.user_id = 3 /\ u.ref_partner_code = None

\* C38: every real (non-zero) account id is the linked account id of at
\* most one partner row, so that the partner cabinet of an account resolves
\* to one partner code.
C38_OnePartnerRowPerAccount ==
    /\ \A p \in partners, q \in partners :
           (p.user_id # 0 /\ p.user_id = q.user_id) => p = q
    /\ \A a \in Accounts : Cardinality(get_user_partner_code(partners, a)) <= 1

\* C39: the statistics and the list of referred users with their purchases
\* of a partner code are answered only to the account linked to the partner
\* row of that code, or to an administrator.
C39_CabinetDataOnlyToOwner ==
    out.kind \in {"ref_stats_detail", "ref_users_list"} =>
        \/ out.to \in ADMIN_IDS
        \/ \E p \in partners : /\ p.partner_code = out.partner_code
                                /\ p.user_id = out.to

\* the handlers of /start, /ref and of the list and pagination buttons
NonReplyKinds == {"cmd_start", "cmd_ref", "get_partner_stats", "users_page", "purchases_page"}

\* the answers of /admin and of the menu buttons
MenuKinds == {"admin_panel", "partners_menu", "partners_list", "purchases_menu", "admin_menu"}

\* this transition is an event of account a that is no reply to a flow, or a
\* step of the handler of such an event
NonReplyStep(a) ==
    \/ \E t \in Running \cup BagToSet(tasks') :
           /\ t.kind \in NonReplyKinds /\ t.uid = a
           /\ Steps(t) \/ Spawned(t)
    \/ out' # out /\ out'.kind \in MenuKinds /\ out'.to = a

\* the partner rows without their link to an account
Unlinked(P) == { [p EXCEPT !.user_id = 0] : p \in P }

\* C40 as stated: while an administrator's flow is active, /start, /ref,
\* /admin and the menu, list and pagination buttons of that administrator
\* leave the conversation state and data unchanged and write neither the
\* partners nor the purchases table.
C40_AsStated ==
    [][\A a \in ADMIN_IDS :
           (fsm[a].state # None /\ NonReplyStep(a)) =>
               /\ fsm'[a] = fsm[a]
               /\ partners' = partners
               /\ purchases' = purchases]_vars

\* C40: while an administrator's flow is active, /start, /ref, /admin and
\* the menu, list and pagination buttons of that administrator leave the
\* conversation state and data unchanged, write no purchase and neither add
\* nor remove a partner row; the one partner write left is the link /start
\* sets on the rows of the sender's own handle.
C40_NonRepliesKeepTheFlow ==
    [][\A a \in ADMIN_IDS :
           (fsm[a].state # None /\ NonReplyStep(a)) =>
               /\ fsm'[a] = fsm[a]
               /\ purchases' = purchases
               /\ Unlinked(partners') = Unlinked(partners)
               /\ Cardinality(partners') = Cardinality(partners)
               /\ \A p \in partners' \ partners :
                      /\ p.user_id = a
                      /\ \E t \in Running : /\ Steps(t) /\ t.kind = "cmd_start"
                                            /\ t.pc = "link" /\ t.username = p.username]_vars

\* /start was answered while administrator 1 waited for the amount, the row
\* of bob carries the link, and the conversation still waits for the amount
C40_Witness ==
    /\ out.kind = "welcome" /\ out.to = 1
    /\ fsm[1].state = "waiting_amount"
    /\ \E p \in partners : p.username = "bob" /\ p.user_id = 1

====
